---- MODULE Spec2Model ----
(***************************************************************************)
(* A model of the lint rules of eslint-plugin-jshow.  A rule is a visitor  *)
(* that the host engine calls with the options of the active configuration *)
(* and one node of the file; it answers with diagnostics, each carrying an *)
(* optional fix.  A source text is a sequence of atoms: one atom is one    *)
(* token, one comment or one piece of white space, and occupies one unit   *)
(* of the range [k-1, k].                                                  *)
(***************************************************************************)
EXTENDS Integers, Sequences, FiniteSets, TLC

VARIABLES
  options,     \* context.options[0] as the configuration gives it
  sourceCode,  \* the text of the file under lint, a sequence of atoms
  visited,     \* the node the engine handed to the rule's listener
  reports,     \* the diagnostics of that visit, in the order of context.report
  pc,          \* "idle" before a visit, "linted" after it, "fixed" after the fixes
  history,     \* example game: the board snapshots, history[1] the empty board
  currentMove, \* example game: the index of the current snapshot, from 0
  pulls,       \* workflow: the pull requests the hosting API lists for the commit
  outputs,     \* workflow: the outputs the steps have written, by "<step id>.<name>"
  jobs,        \* workflow: the status of each job of the run
  fs,          \* release scripts: the manifests on disk, by path
  proc         \* release scripts: what the last command did (status, stderr, writes)

lintVars == <<options, sourceCode, visited, reports, pc>>

gameVars == <<history, currentMove>>

workflowVars == <<pulls, outputs, jobs>>

scriptVars == <<fs, proc>>

vars == <<options, sourceCode, visited, reports, pc, history, currentMove, pulls, outputs,
          jobs, fs, proc>>

\* A lint run has no game on screen and no workflow run.
NoGame == history = <<>> /\ currentMove = 0

NoWorkflow == pulls = <<>> /\ outputs = <<>> /\ jobs = <<>>

NoScripts == fs = <<>> /\ proc = <<>>

\* A game or a workflow run lints nothing.
NoLint ==
  /\ options = [given |-> FALSE]
  /\ sourceCode = <<>>
  /\ visited = [nodeType |-> "none"]
  /\ reports = <<>>
  /\ pc = "idle"

U == "undefined"

NoNode == [nodeType |-> "none"]

\* A fix the engine has nothing to apply for (fix: null).
\* A fix is over the atoms range[1] + 1 .. range[2] of the file, less the first
\* trim[1] characters of the first of them and the last trim[2] characters of
\* the last: the characters the fix of the program is over.
NoFix == [has |-> FALSE, trim |-> <<0, 0>>, range |-> <<0, 0>>, text |-> <<>>]

RECURSIVE Dedup(_)
Dedup(s) ==
  IF s = <<>> THEN <<>>
  ELSE LET r == Dedup(SubSeq(s, 1, Len(s) - 1))
           x == s[Len(s)]
       IN IF \E i \in 1..Len(r) : r[i] = x THEN r ELSE Append(r, x)

Includes(s, x) == \E i \in 1..Len(s) : s[i] = x

\* String.prototype.includes of two characters: text holds them side by side.
IncludesPair(text, pair) == \E q \in 1..(Len(text) - 1) : SubSeq(text, q, q + 1) = pair

\* The number of characters of the first k atoms of the file: the offset the
\* program has for the place after them.
RECURSIVE Off(_, _)
Off(code, k) == IF k = 0 THEN 0 ELSE Off(code, k - 1) + Len(code[k])

\* text.slice(from, to): the characters from offset from up to offset to, as the
\* atoms they are cut from.
Slice(code, from, to) ==
  LET RECURSIVE Pieces(_, _)
      Pieces(k, off) ==
        IF k > Len(code) \/ off >= to THEN <<>>
        ELSE LET next == off + Len(code[k])
                 lo == IF from > off THEN from - off ELSE 0
                 hi == IF to < next THEN to - off ELSE next - off
             IN (IF lo < hi THEN <<SubSeq(code[k], lo + 1, hi)>> ELSE <<>>)
                  \o Pieces(k + 1, next)
  IN Pieces(1, 0)

\* fix.range: the offsets of the characters a fix is over.
FixRange(code, fix) ==
  <<Off(code, fix.range[1]) + fix.trim[1], Off(code, fix.range[2]) - fix.trim[2]>>

\* The engine applies one fix: the characters of the range give way to the text.
ApplyFix(text, fix) ==
  IF ~fix.has THEN text
  ELSE LET range == FixRange(text, fix)
       IN Slice(text, 0, range[1]) \o fix.text \o Slice(text, range[2], Off(text, Len(text)))

\* The text after the fixes of a pass: the engine takes the fixes in the order
\* of their ranges, drops one that does not start after the end of the one
\* taken before it, and replaces the ranges of the others.
ApplyFixes(text, issued) ==
  LET fixes == SelectSeq([r \in 1..Len(issued) |-> issued[r].fix], LAMBDA fix : fix.has)
      range == <<>> \o [i \in 1..Len(fixes) |-> FixRange(text, fixes[i])]
      Before(j, i) ==
        \/ range[j][1] < range[i][1]
        \/ range[j][1] = range[i][1] /\ range[j][2] < range[i][2]
        \/ range[j] = range[i] /\ j < i
      order == <<>> \o [k \in 1..Len(fixes) |->
                          CHOOSE i \in 1..Len(fixes) :
                            Cardinality({j \in 1..Len(fixes) : Before(j, i)}) = k - 1]
      RECURSIVE Output(_, _)
      Output(k, lastPos) ==
        IF k > Len(fixes)
        THEN Slice(text, IF lastPos < 0 THEN 0 ELSE lastPos, Off(text, Len(text)))
        ELSE IF lastPos >= range[order[k]][1] \/ range[order[k]][1] > range[order[k]][2]
        THEN Output(k + 1, lastPos)
        ELSE Slice(text, IF lastPos < 0 THEN 0 ELSE lastPos, range[order[k]][1])
               \o fixes[order[k]].text \o Output(k + 1, range[order[k]][2])
  IN Output(1, 0 - 1)

\* The engine applies, in one pass, the fixes of the diagnostics of the visit.
EngineFix ==
  /\ pc = "linted"
  /\ \E i \in 1..Len(reports) : reports[i].fix.has
  /\ sourceCode' = ApplyFixes(sourceCode, reports)
  /\ pc' = "fixed"
  /\ UNCHANGED <<options, visited, reports>>
  /\ UNCHANGED <<gameVars, workflowVars, scriptVars>>

(***************************************************************************)
(* explicit-member-accessibility                                           *)
(***************************************************************************)

Categories ==
  {"constructors", "parameterProperties", "properties", "accessors", "methods"}

NoOverride == [form |-> U, accessibility |-> U, fixWith |-> U, ignoredNames |-> <<>>]

StringOverride(level) ==
  [form |-> "string", accessibility |-> level, fixWith |-> U, ignoredNames |-> <<>>]

ObjectOverride(level, fix, names) ==
  [form |-> "object", accessibility |-> level, fixWith |-> fix, ignoredNames |-> names]

\* DEFAULT_OPTION; an optional array is <<>> when absent and <<array>> when given.
ACC_DEFAULT_OPTION ==
  [given |-> TRUE,
   accessibility |-> "explicit",
   staticAccessibility |-> "no-accessibility",
   fixWith |-> "protected",
   ignoredNames |-> << <<>> >>,
   overrides |-> [c \in Categories |->
                    IF c = "constructors" THEN StringOverride("no-public")
                    ELSE NoOverride]]

AccNoOptions ==
  [given |-> FALSE, accessibility |-> U, staticAccessibility |-> U,
   fixWith |-> U, ignoredNames |-> <<>>,
   overrides |-> [c \in Categories |-> NoOverride]]

OffPolicy == [accessibility |-> "off", fixWith |-> U, ignoredNames |-> <<>>]

\* The characters of a string, one string of length one each.
Chars(str) == [i \in 1..Len(str) |-> SubSeq(str, i, i)]

\* The character U+0000, which no string of the model can hold: a sequence of
\* characters has this lexeme where the program's string has U+0000.
NUL == "\\u0000"

\* A character of a pattern that none of the modelled texts holds.
Unwritten == "\\uFFFD"

\* The characters U+0020 to U+007E in the order of their codes; U+0060, which
\* no string of the model can hold, is named by a lexeme as U+0000 is.
Ascii ==
  Chars(" !\"#$%&'()*+,-./0123456789:;<=>?@ABCDEFGHIJKLMNOPQRSTUVWXYZ[\\]^_")
    \o <<"\\u0060">> \o Chars("abcdefghijklmnopqrstuvwxyz{|}~")

AsciiCode == [ch \in {Ascii[k] : k \in 1..Len(Ascii)} |->
                31 + CHOOSE k \in 1..Len(Ascii) : Ascii[k] = ch]

\* The code unit of a character; a character beyond ASCII is above them all.
CodeOf(ch) ==
  CASE ch = NUL -> 0
    [] ch = "\t" -> 9
    [] ch = "\n" -> 10
    [] ch = "\f" -> 12
    [] ch = "\r" -> 13
    [] ch \in DOMAIN AsciiCode -> AsciiCode[ch]
    [] OTHER -> 65533

FromCode(code) ==
  CASE code = 0 -> NUL
    [] code = 9 -> "\t"
    [] code = 10 -> "\n"
    [] code = 12 -> "\f"
    [] code = 13 -> "\r"
    [] code \in 32..126 -> Ascii[code - 31]
    [] OTHER -> Unwritten

DigitChars == {"0", "1", "2", "3", "4", "5", "6", "7", "8", "9"}

HexChars == DigitChars \cup {"a", "b", "c", "d", "e", "f", "A", "B", "C", "D", "E", "F"}

WordChars == {ch \in DOMAIN AsciiCode :
                \/ AsciiCode[ch] \in 48..57 \/ AsciiCode[ch] \in 65..90
                \/ AsciiCode[ch] \in 97..122 \/ ch = "_"}

\* The characters \s matches, of those a text of the model can hold.
WhiteSpaceChars == {" ", "\t", "\n", "\f", "\r"}

LineTerminators == {"\n", "\r"}

HexValue(ch) ==
  IF ch \in DigitChars THEN CodeOf(ch) - 48
  ELSE IF CodeOf(ch) >= 97 THEN CodeOf(ch) - 87 ELSE CodeOf(ch) - 55

\* /^\s*$/u.test(atom): the atom holds white space and nothing else.
IsSpace(atom) == \A i \in 1..Len(atom) : SubSeq(atom, i, i) \in WhiteSpaceChars

StartsWith(str, prefix) ==
  Len(str) >= Len(prefix) /\ SubSeq(str, 1, Len(prefix)) = prefix

EndsWith(str, suffix) ==
  Len(str) >= Len(suffix) /\ SubSeq(str, Len(str) - Len(suffix) + 1, Len(str)) = suffix

\* comment.type of an atom the parser reads as a comment.
IsBlockComment(atom) == Len(atom) >= 4 /\ StartsWith(atom, "/*") /\ EndsWith(atom, "*/")

IsLineComment(atom) == StartsWith(atom, "//")

IsComment(atom) == IsBlockComment(atom) \/ IsLineComment(atom)

\* comment.value: the text between the marks of the comment.
CommentValue(atom) ==
  IF IsBlockComment(atom) THEN SubSeq(atom, 3, Len(atom) - 2)
  ELSE SubSeq(atom, 3, Len(atom))

\* The comments of the modelled files.
BlockComments ==
  {"/*c*/", "/** @type {Foo} */", "/** @param {Foo} p */", "/** @see Foo */",
   "/** {@link Foo} */", "/** @see Foobar */", "/** @type {Bar} Foo */",
   "/** Foo */", "/**\n * @see\tFoo\n */"}

LineComments == {"//c", "// @see Foo"}

IsKeyword(atom) ==
  atom \in {"public", "protected", "private", "static", "readonly", "get", "set"}

\* code.getTokens(node): the positions of the node's tokens, in order.
RECURSIVE TokensIn(_, _, _)
TokensIn(code, from, to) ==
  IF from > to THEN <<>>
  ELSE IF IsSpace(code[from]) \/ IsComment(code[from])
       THEN TokensIn(code, from + 1, to)
       ELSE <<from>> \o TokensIn(code, from + 1, to)

getTokens(code, node) == TokensIn(code, node.range[1] + 1, node.range[2])

RECURSIVE FirstAfter(_, _, _)
FirstAfter(tokens, i, limit) ==
  IF i > Len(tokens) THEN 0
  ELSE IF tokens[i] - 1 > limit THEN tokens[i]
       ELSE FirstAfter(tokens, i + 1, limit)

\* code.getCommentsAfter(token): the first comment between the token at position
\* from - 1 and the next token, 0 when a token comes first.
RECURSIVE FirstCommentAfter(_, _)
FirstCommentAfter(code, from) ==
  IF from > Len(code) THEN 0
  ELSE IF IsComment(code[from]) THEN from
  ELSE IF IsSpace(code[from]) THEN FirstCommentAfter(code, from + 1)
  ELSE 0

\* The index in tokens of the first keyword token of value char, 0 when none.
RECURSIVE FirstKeyword(_, _, _, _)
FirstKeyword(code, tokens, i, char) ==
  IF i > Len(tokens) THEN 0
  ELSE IF IsKeyword(code[tokens[i]]) /\ code[tokens[i]] = char THEN i
       ELSE FirstKeyword(code, tokens, i + 1, char)

getAccessibilityFixer(code, node, mode, char, newChar) ==
  LET tokens == getTokens(code, node)
  IN IF mode = "add"
     THEN LET t == IF node.decoratorsEnd >= 0
                   THEN FirstAfter(tokens, 1, node.decoratorsEnd)
                   ELSE 0
          IN IF t > 0
             THEN [has |-> TRUE, trim |-> <<0, 0>>, range |-> <<t - 1, t - 1>>, text |-> <<char, " ">>]
             ELSE [has |-> TRUE, trim |-> <<0, 0>>, range |-> <<node.range[1], node.range[1]>>,
                   text |-> <<char, " ">>]
     ELSE LET i == FirstKeyword(code, tokens, 1, char)
              changRange ==
                IF i = 0 THEN <<0, 0>>
                ELSE IF FirstCommentAfter(code, tokens[i] + 1) > 0
                     THEN <<tokens[i] - 1, FirstCommentAfter(code, tokens[i] + 1) - 1>>
                ELSE IF i < Len(tokens)
                     THEN <<tokens[i] - 1, tokens[i + 1] - 1>>
                     ELSE <<tokens[i] - 1, tokens[i]>>
          IN IF mode = "replace"
             THEN [has |-> TRUE, trim |-> <<0, 0>>, range |-> changRange, text |-> <<newChar, " ">>]
             ELSE [has |-> TRUE, trim |-> <<0, 0>>, range |-> changRange, text |-> <<>>]

\* context.report: the node gives the diagnostic its place.
Report(messageId, node, fix, data) ==
  [messageId |-> messageId, node |-> [nodeType |-> node.nodeType, range |-> node.range],
   fix |-> fix, data |-> data]

\* The place of a node, as a diagnostic on it carries it.
Place(node) == [nodeType |-> node.nodeType, range |-> node.range]

\* checkStaticModifier with `return true` after a report of the static check.
checkStaticModifier_ReturnTrue(code, accessibility, node, data) ==
  IF ~node.static \/ accessibility = "off" THEN [ret |-> TRUE, reports |-> <<>>]
  ELSE IF accessibility = "explicit" /\ node.accessibility = U
  THEN [ret |-> TRUE,
        reports |-> <<Report("unwantedPublicAccessibility", node,
                        getAccessibilityFixer(code, node, "add", "public", ""),
                        data)>>]
  ELSE IF accessibility = "explicit" /\ node.accessibility # "public"
  THEN [ret |-> TRUE,
        reports |-> <<Report("missingAccessibility", node,
                        getAccessibilityFixer(code, node, "replace",
                                              node.accessibility, "public"),
                        data)>>]
  ELSE IF accessibility = "no-accessibility" /\ node.accessibility # U
  THEN [ret |-> TRUE,
        reports |-> <<Report("missingAccessibility", node,
                        getAccessibilityFixer(code, node, "remove",
                                              node.accessibility, ""),
                        data)>>]
  ELSE [ret |-> TRUE, reports |-> <<>>]

\* ret is what the caller tests with `!`: TRUE only for the `return true` of a
\* member that is not static, FALSE for every `return;` and for falling off the end.
checkStaticModifier(code, accessibility, node, data) ==
  IF ~node.static THEN [ret |-> TRUE, reports |-> <<>>]
  ELSE IF accessibility = "off" THEN [ret |-> FALSE, reports |-> <<>>]
  ELSE IF accessibility = "explicit"
  THEN IF node.accessibility = U
       THEN [ret |-> FALSE,
             reports |-> <<Report("unwantedPublicAccessibility", node,
                             getAccessibilityFixer(code, node, "add", "public", ""),
                             data)>>]
       ELSE IF node.accessibility # "public"
       THEN [ret |-> FALSE,
             reports |-> <<Report("missingAccessibility", node,
                             getAccessibilityFixer(code, node, "replace",
                                                   node.accessibility, "public"),
                             data)>>]
       ELSE [ret |-> FALSE, reports |-> <<>>]
  ELSE IF accessibility = "no-accessibility"
  THEN IF node.accessibility # U
       THEN [ret |-> FALSE,
             reports |-> <<Report("missingAccessibility", node,
                             getAccessibilityFixer(code, node, "remove",
                                                   node.accessibility, ""),
                             data)>>]
       ELSE [ret |-> FALSE, reports |-> <<>>]
  ELSE [ret |-> FALSE, reports |-> <<>>]

checkAccessibilityModifier(code, prop, node, data) ==
  IF Includes(prop.ignoredNames, data.name) THEN <<>>
  ELSE IF prop.accessibility = "explicit"
  THEN IF node.accessibility = U
       THEN <<Report("unwantedPublicAccessibility", node,
                getAccessibilityFixer(code, node, "add", prop.fixWith, ""), data)>>
       ELSE <<>>
  ELSE IF prop.accessibility = "no-public"
  THEN IF node.accessibility = "public"
       THEN <<Report("missingAccessibility", node,
                getAccessibilityFixer(code, node, "remove", "public", ""), data)>>
       ELSE <<>>
  ELSE <<>>

\* option is the base { accessibility, ignoredNames }, fixWith the base fixWith.
parseOverrideAccessibility(value, option, fixWith) ==
  IF value.form = "string" /\ value.accessibility = "off" THEN OffPolicy
  ELSE
    LET hasFixer == value.form = "object"
        accessibility ==
          IF value.accessibility # U THEN value.accessibility
          ELSE option.accessibility
        ignoredNames ==
          IF hasFixer /\ value.ignoredNames # <<>> THEN value.ignoredNames[1]
          ELSE option.ignoredNames
    IN IF accessibility = "off" THEN OffPolicy
       ELSE IF accessibility = "no-public"
       THEN [accessibility |-> "no-public", fixWith |-> U,
             ignoredNames |-> ignoredNames]
       ELSE [accessibility |-> "explicit",
             fixWith |-> IF hasFixer /\ value.accessibility = "explicit"
                            /\ value.fixWith # U
                         THEN value.fixWith ELSE fixWith,
             ignoredNames |-> ignoredNames]

\* create() without the constructors default: every category takes the base.
AccRealOption_CtorFromBase(opts) ==
  LET option == IF opts.given THEN opts ELSE ACC_DEFAULT_OPTION
      fixWith == IF option.fixWith # U THEN option.fixWith
                 ELSE ACC_DEFAULT_OPTION.fixWith
      baseOption ==
        [accessibility |-> IF option.accessibility # U THEN option.accessibility
                           ELSE ACC_DEFAULT_OPTION.accessibility,
         ignoredNames |-> Dedup(IF option.ignoredNames # <<>>
                                THEN option.ignoredNames[1]
                                ELSE ACC_DEFAULT_OPTION.ignoredNames[1])]
  IN [staticAccessibility |->
        IF option.staticAccessibility # U THEN option.staticAccessibility
        ELSE ACC_DEFAULT_OPTION.staticAccessibility]
       @@ [c \in Categories |->
             parseOverrideAccessibility(option.overrides[c], baseOption, fixWith)]

\* create(): the options of the configuration, resolved once per file.
AccRealOption(opts) ==
  LET option == IF opts.given THEN opts ELSE ACC_DEFAULT_OPTION
      fixWith == IF option.fixWith # U THEN option.fixWith
                 ELSE ACC_DEFAULT_OPTION.fixWith
      baseOption ==
        [accessibility |-> IF option.accessibility # U THEN option.accessibility
                           ELSE ACC_DEFAULT_OPTION.accessibility,
         ignoredNames |-> Dedup(IF option.ignoredNames # <<>>
                                THEN option.ignoredNames[1]
                                ELSE ACC_DEFAULT_OPTION.ignoredNames[1])]
      overrides == option.overrides
  IN [staticAccessibility |->
        IF option.staticAccessibility # U THEN option.staticAccessibility
        ELSE ACC_DEFAULT_OPTION.staticAccessibility,
      constructors |->
        parseOverrideAccessibility(overrides["constructors"],
          IF baseOption.accessibility = "explicit"
          THEN [accessibility |-> "no-public", ignoredNames |-> <<>>]
          ELSE baseOption,
          fixWith),
      parameterProperties |->
        parseOverrideAccessibility(overrides["parameterProperties"], baseOption, fixWith),
      properties |->
        parseOverrideAccessibility(overrides["properties"], baseOption, fixWith),
      accessors |->
        parseOverrideAccessibility(overrides["accessors"], baseOption, fixWith),
      methods |->
        parseOverrideAccessibility(overrides["methods"], baseOption, fixWith)]

\* The atoms a sequence of atoms holds, as one text.
RECURSIVE TextOf(_)
TextOf(atoms) == IF atoms = <<>> THEN "" ELSE Head(atoms) \o TextOf(Tail(atoms))

\* getNameFromMember(member, sourceCode).name; node.key is the name of an
\* Identifier or PrivateIdentifier key and String(key.value) of a Literal key.
getNameFromMember(node, code) ==
  CASE node.keyType = "Identifier" -> node.key
    [] node.keyType = "PrivateIdentifier" -> "#" \o node.key
    [] node.keyType = "Literal" ->
         IF Includes(Chars(node.key), "'") THEN "\"" \o node.key \o "\"" ELSE node.key
    [] OTHER -> TextOf(SubSeq(code, node.keyRange[1] + 1, node.keyRange[2]))

\* The atoms of a key as the class body writes it: a name, a #name, a string
\* in quotes, or an expression between brackets.
KeyAtoms(m) ==
  CASE m.keyType = "Identifier" -> <<m.key>>
    [] m.keyType = "PrivateIdentifier" -> <<"#" \o m.key>>
    [] m.keyType = "Literal" ->
         <<IF Includes(Chars(m.key), "'") THEN "\"" \o m.key \o "\""
           ELSE "'" \o m.key \o "'">>
    [] OTHER -> <<"[", m.key, "]">>

MethodCategory(node) ==
  IF node.kind = "constructor" THEN "constructors"
  ELSE IF node.kind \in {"get", "set"} THEN "accessors"
  ELSE "methods"

\* checkMethodAccessibilityModifier leaving before the static check when the
\* category is off.
checkMethodAccessibilityModifier_OffFirst(code, node, option) ==
  LET policy == option[MethodCategory(node)]
      data == [type |-> "method definition", name |-> getNameFromMember(node, code)]
      static == checkStaticModifier(code, option.staticAccessibility, node, data)
  IN IF policy.accessibility = "off" THEN <<>>
     ELSE IF ~static.ret \/ node.keyType = "PrivateIdentifier" THEN static.reports
     ELSE static.reports \o checkAccessibilityModifier(code, policy, node, data)

checkMethodAccessibilityModifier(code, node, option) ==
  LET policy == option[MethodCategory(node)]
      nodeType == IF node.kind \in {"get", "set"}
                  THEN node.kind \o " property accessor"
                  ELSE "method definition"
      accessibility == policy.accessibility
      ignoredNames == policy.ignoredNames
      fixWith == IF policy.accessibility = "explicit" THEN policy.fixWith
                 ELSE "protected"
      data == [type |-> nodeType, name |-> getNameFromMember(node, code)]
      static == checkStaticModifier(code, option.staticAccessibility, node, data)
  IN IF ~static.ret THEN static.reports
     ELSE IF accessibility = "off" \/ node.keyType = "PrivateIdentifier"
     THEN static.reports
     ELSE static.reports \o
          checkAccessibilityModifier(code,
            [accessibility |-> accessibility, fixWith |-> fixWith,
             ignoredNames |-> ignoredNames],
            node, data)

checkPropertyAccessibilityModifier(code, node, option) ==
  LET data == [type |-> "class property", name |-> getNameFromMember(node, code)]
      static == checkStaticModifier(code, option.staticAccessibility, node, data)
  IN IF ~static.ret THEN static.reports
     ELSE IF option.properties.accessibility = "off"
             \/ node.keyType = "PrivateIdentifier"
     THEN static.reports
     ELSE static.reports \o
          checkAccessibilityModifier(code, option.properties, node, data)

checkParameterPropertyAccessibilityModifier(code, node, prop) ==
  IF prop.accessibility = "off" \/ ~node.readonly THEN <<>>
  ELSE IF ~(\/ node.parameterType = "Identifier"
            \/ node.parameterType = "AssignmentPattern" /\ node.leftType = "Identifier")
  THEN <<>>
  ELSE checkAccessibilityModifier(code, prop, node,
         [type |-> "parameter property", name |-> node.key])

(* The files of the accessibility rule: one class with one member. *)

ClassHead == <<"class", " ", "TestCase", " ", "{", " ">>

ClassTail == <<" ", "}">>

CtorHead == ClassHead \o <<"constructor", "(">>

CtorTail == <<")", "{", "}">> \o ClassTail

Opt(cond, atoms) == IF cond THEN atoms ELSE <<>>

\* decorator: "none", "spaced" (`@dec() method(){}`) or "tight" (`@dec()method(){}`,
\* no white space between the decorator and the token after it).
DecoratorAtoms(m) ==
  IF m.decorator = "spaced" THEN <<"@dec()", " ">>
  ELSE IF m.decorator = "tight" THEN <<"@dec()">>
  ELSE <<>>

ModifierAtoms(m) ==
  Opt(m.accessibility # U,
      <<m.accessibility, " ">> \o Opt(m.comment, <<"/*c*/", " ">>))

\* The atoms of a member before its key.
BeforeKey(m) ==
  DecoratorAtoms(m) \o ModifierAtoms(m)
    \o Opt(m.static, <<"static", " ">>)
    \o Opt(m.kind \in {"get", "set"}, <<m.kind, " ">>)

MemberAtoms(m) ==
  IF m.nodeType = "TSParameterProperty"
  THEN ModifierAtoms(m) \o Opt(m.readonly, <<"readonly", " ">>)
         \o <<IF "ObjectPattern" \in {m.parameterType, m.leftType} THEN "{a}" ELSE m.key>>
         \o Opt(m.parameterType = "AssignmentPattern", <<"=", "0">>)
  ELSE BeforeKey(m) \o KeyAtoms(m)
         \o (IF m.nodeType = "PropertyDefinition" THEN <<"=", "0", ";">>
             ELSE <<"(", ")", "{", "}">>)

MemberFile(m) ==
  IF m.nodeType = "TSParameterProperty"
  THEN CtorHead \o MemberAtoms(m) \o CtorTail
  ELSE ClassHead \o MemberAtoms(m) \o ClassTail

\* The node the parser builds for the member: the member with its range, the
\* range of its key and the end of its last decorator (-1 without decorators).
MemberNode(m) ==
  LET start == IF m.nodeType = "TSParameterProperty" THEN Len(CtorHead)
               ELSE Len(ClassHead)
      key == start + Len(BeforeKey(m)) + (IF Len(KeyAtoms(m)) > 1 THEN 1 ELSE 0)
  IN [nodeType |-> m.nodeType, kind |-> m.kind, static |-> m.static,
      accessibility |-> m.accessibility, keyType |-> m.keyType, key |-> m.key,
      decorator |-> m.decorator, comment |-> m.comment,
      readonly |-> m.readonly, parameterType |-> m.parameterType,
      leftType |-> m.leftType, keyRange |-> <<key, key + 1>>,
      range |-> <<start, start + Len(MemberAtoms(m))>>,
      decoratorsEnd |-> IF m.decorator = "none" THEN 0 - 1 ELSE start + 1]

(* The configurations and the members the rule is run on. *)

AccLevels == {"off", "explicit", "no-public"}

AccOverrideValues ==
  {StringOverride(l) : l \in AccLevels}
    \cup {ObjectOverride("explicit", "private", <<>>),
          ObjectOverride("no-public", U, << <<"foo">> >>),
          ObjectOverride(U, "private", <<>>)}

AccOverrides ==
  {[c \in Categories |-> NoOverride]}
    \cup {[c \in Categories |-> IF c = k THEN v ELSE NoOverride] :
            k \in Categories, v \in AccOverrideValues}

AccOptions ==
  {AccNoOptions}
    \cup [given : {TRUE},
          accessibility : {U} \cup AccLevels,
          staticAccessibility : {U, "off", "explicit", "no-accessibility"},
          fixWith : {U, "public"},
          ignoredNames : {<<>>, << <<"foo", "foo">> >>},
          overrides : AccOverrides]

Modifiers == {U, "public", "protected", "private"}

Member(nodeType, kind, static, accessibility, keyType, decorator, comment, readonly,
       parameterType) ==
  [nodeType |-> nodeType, kind |-> kind, static |-> static,
   accessibility |-> accessibility, keyType |-> keyType,
   key |-> IF kind = "constructor" THEN "constructor" ELSE "foo",
   decorator |-> decorator, comment |-> comment, readonly |-> readonly,
   parameterType |-> parameterType, leftType |-> U]

\* A method whose key is a string or an expression in brackets.
KeyedMethod(accessibility, keyType, key) ==
  [Member("MethodDefinition", "method", FALSE, accessibility, keyType, "none", FALSE,
          FALSE, U) EXCEPT !.key = key]

\* MethodDefinition and TSAbstractMethodDefinition nodes.
AccMethods ==
  {Member("MethodDefinition", k, s, a, t, d, c, FALSE, U) :
     k \in {"method", "get", "set"}, s \in BOOLEAN, a \in Modifiers,
     t \in {"Identifier", "PrivateIdentifier"},
     d \in {"none", "spaced", "tight"},
     c \in {FALSE}}
    \cup {Member("MethodDefinition", "method", s, "public", "Identifier", "none",
                 TRUE, FALSE, U) : s \in BOOLEAN}
    \cup {Member("MethodDefinition", "constructor", FALSE, a, "Identifier", "none",
                 FALSE, FALSE, U) : a \in Modifiers}
    \cup {KeyedMethod(a, key[1], key[2]) :
            a \in {U, "public"},
            key \in {<<"Literal", "it's">>, <<"Literal", "foo">>, <<"MemberExpression", "a.b">>}}

\* PropertyDefinition and TSAbstractPropertyDefinition nodes.
AccProperties ==
  {Member("PropertyDefinition", "property", s, a, t, d, FALSE, FALSE, U) :
     s \in BOOLEAN, a \in Modifiers,
     t \in {"Identifier", "PrivateIdentifier"},
     d \in {"none", "spaced", "tight"}}

\* TSParameterProperty nodes: a parameter with a modifier or readonly.
\* leftType is the type of the left side of an AssignmentPattern.
AccParameters ==
  {m \in {[Member("TSParameterProperty", "parameter", FALSE, a, "Identifier", "none",
                   FALSE, r, p[1]) EXCEPT !.leftType = p[2]] :
            a \in Modifiers, r \in BOOLEAN,
            p \in {<<"Identifier", U>>, <<"AssignmentPattern", "Identifier">>,
                   <<"AssignmentPattern", "ObjectPattern">>, <<"ObjectPattern", U>>}} :
     m.accessibility # U \/ m.readonly}

InitAcc ==
  /\ NoGame /\ NoWorkflow /\ NoScripts
  /\ options \in AccOptions
  /\ sourceCode = <<>>
  /\ visited = NoNode
  /\ reports = <<>>
  /\ pc = "idle"

MethodDefinition ==
  /\ pc = "idle"
  /\ \E m \in AccMethods :
       /\ sourceCode' = MemberFile(m)
       /\ visited' = MemberNode(m)
       /\ reports' = checkMethodAccessibilityModifier(MemberFile(m), MemberNode(m),
                                                      AccRealOption(options))
  /\ pc' = "linted"
  /\ UNCHANGED options
  /\ UNCHANGED <<gameVars, workflowVars, scriptVars>>

PropertyDefinition ==
  /\ pc = "idle"
  /\ \E m \in AccProperties :
       /\ sourceCode' = MemberFile(m)
       /\ visited' = MemberNode(m)
       /\ reports' = checkPropertyAccessibilityModifier(MemberFile(m), MemberNode(m),
                                                        AccRealOption(options))
  /\ pc' = "linted"
  /\ UNCHANGED options
  /\ UNCHANGED <<gameVars, workflowVars, scriptVars>>

TSParameterProperty ==
  /\ pc = "idle"
  /\ \E m \in AccParameters :
       /\ sourceCode' = MemberFile(m)
       /\ visited' = MemberNode(m)
       /\ reports' = checkParameterPropertyAccessibilityModifier(
                        MemberFile(m), MemberNode(m),
                        AccRealOption(options).parameterProperties)
  /\ pc' = "linted"
  /\ UNCHANGED options
  /\ UNCHANGED <<gameVars, workflowVars, scriptVars>>

NextAcc == MethodDefinition \/ PropertyDefinition \/ TSParameterProperty \/ EngineFix

SpecAcc == InitAcc /\ [][NextAcc]_vars

(***************************************************************************)
(* Properties of explicit-member-accessibility                             *)
(***************************************************************************)

Linted == pc \in {"linted", "fixed"}

\* The file the listener saw (sourceCode itself changes when the fix is applied).
LintedFile == MemberFile(visited)

AccCategoryOf(node) ==
  IF node.nodeType = "TSParameterProperty" THEN "parameterProperties"
  ELSE IF node.nodeType = "PropertyDefinition" THEN "properties"
  ELSE MethodCategory(node)

AccPolicyOf(node) == AccRealOption(options)[AccCategoryOf(node)]

\* The members the category check is stated for: not static, not #-named,
\* a readonly parameter when a parameter property, and a name the category
\* does not ignore.
AccNamed(node) ==
  /\ node.keyType # "PrivateIdentifier"
  /\ node.nodeType = "TSParameterProperty" =>
       /\ node.readonly
       /\ \/ node.parameterType = "Identifier"
          \/ node.parameterType = "AssignmentPattern" /\ node.leftType = "Identifier"

InCategoryScope(node) ==
  /\ ~node.static
  /\ AccNamed(node)
  /\ ~Includes(AccPolicyOf(node).ignoredNames, node.key)

ExpectAdd(node) ==
  AccPolicyOf(node).accessibility = "explicit" /\ node.accessibility = U

ExpectRemove(node) ==
  AccPolicyOf(node).accessibility = "no-public" /\ node.accessibility = "public"

\* The member written with the modifier char in front of its first token after
\* the decorators.
WithModifier(node, char) == MemberFile([node EXCEPT !.accessibility = char])

\* The file without the modifier keyword of the member and the space after it.
WithoutModifier(node) ==
  LET k == node.range[1] + Len(DecoratorAtoms(node)) + 1
  IN SubSeq(LintedFile, 1, k - 1) \o SubSeq(LintedFile, k + 2, Len(LintedFile))

AccCategoryCheckOn(node) ==
  /\ Len(reports) <= 1
  /\ Len(reports) = 1 <=> (ExpectAdd(node) \/ ExpectRemove(node))
  /\ ExpectAdd(node) =>
       /\ reports[1].messageId = "unwantedPublicAccessibility"
       /\ reports[1].fix.has
       /\ ApplyFix(LintedFile, reports[1].fix)
            = WithModifier(node, AccPolicyOf(node).fixWith)
  /\ ExpectRemove(node) =>
       /\ reports[1].messageId = "missingAccessibility"
       /\ reports[1].fix.has
       /\ ApplyFix(LintedFile, reports[1].fix) = WithoutModifier(node)

\* C1: a member that is not static, not #-named and not ignored is reported
\* iff its category is `explicit` and it has no modifier (message
\* unwantedPublicAccessibility, the fix writes the category's fixWith and a space
\* in front of the member) or its category is `no-public` and the modifier is
\* public (message missingAccessibility, the fix removes the keyword).
C1_CategoryCheck ==
  (Linted /\ InCategoryScope(visited)) => AccCategoryCheckOn(visited)

\* The same statement for the members whose last decorator, if any, is followed
\* by white space: this part of C1 holds.
AccCategoryCheckSpaced ==
  (Linted /\ InCategoryScope(visited) /\ visited.decorator # "tight")
    => AccCategoryCheckOn(visited)

\* C2: under staticAccessibility no-accessibility a static member with a
\* modifier gets one missingAccessibility whose fix removes the modifier, and a
\* static member without a modifier gets nothing, whatever the base
\* accessibility, fixWith and overrides are.
C2_StaticNoAccessibility ==
  (Linted /\ visited.static
     /\ AccRealOption(options).staticAccessibility = "no-accessibility")
    => IF visited.accessibility = U THEN reports = <<>>
       ELSE /\ Len(reports) = 1
            /\ reports[1].messageId = "missingAccessibility"
            /\ reports[1].fix.has
            /\ ApplyFix(LintedFile, reports[1].fix) = WithoutModifier(visited)

\* A static method with a modifier was reported although the base accessibility
\* and so the methods category are off.
C2_Witness ==
  /\ Linted /\ visited.static /\ visited.accessibility = "protected"
  /\ visited.nodeType = "MethodDefinition"
  /\ options.given /\ options.accessibility = "off"
  /\ options.staticAccessibility = U
  /\ Len(reports) = 1

\* What the static policy alone asks of a static member.
StaticVerdict(node) ==
  LET policy == AccRealOption(options).staticAccessibility
  IN IF policy = "explicit" /\ node.accessibility = U
     THEN <<"unwantedPublicAccessibility">>
     ELSE IF policy = "explicit" /\ node.accessibility # "public"
     THEN <<"missingAccessibility">>
     ELSE IF policy = "no-accessibility" /\ node.accessibility # U
     THEN <<"missingAccessibility">>
     ELSE <<>>

\* C3: the static check comes first and a static member that it reports gets
\* no category check, so a visit reports at most one diagnostic and the
\* diagnostic of a static member is the one of the static policy.
C3_CheckOrder ==
  Linted =>
    /\ Len(reports) <= 1
    /\ (visited.static /\ StaticVerdict(visited) # <<>>) =>
         /\ Len(reports) = 1
         /\ reports[1].messageId = StaticVerdict(visited)[1]

\* A static public method under no-accessibility whose category is no-public:
\* both checks would report it, one diagnostic is there.
C3_Witness ==
  /\ Linted /\ visited.static /\ visited.accessibility = "public"
  /\ visited.nodeType = "MethodDefinition"
  /\ AccRealOption(options).staticAccessibility = "no-accessibility"
  /\ AccPolicyOf(visited).accessibility = "no-public"
  /\ ~Includes(AccPolicyOf(visited).ignoredNames, visited.key)
  /\ Len(reports) = 1

\* The base policy as the configuration states it.
BaseAccessibility ==
  IF options.given /\ options.accessibility # U THEN options.accessibility
  ELSE "explicit"

BaseFixWith ==
  IF options.given /\ options.fixWith # U THEN options.fixWith ELSE "protected"

BaseIgnoredNames ==
  IF options.given /\ options.ignoredNames # <<>> THEN options.ignoredNames[1]
  ELSE <<>>

HasOverride(c) ==
  IF options.given THEN options.overrides[c].form # U ELSE c = "constructors"

\* A category that takes the base policy, the base fixWith and the base names.
InheritsBase(c) ==
  LET r == AccRealOption(options)[c]
  IN /\ r.accessibility = BaseAccessibility
     /\ r.accessibility = "explicit" => r.fixWith = BaseFixWith
     /\ r.accessibility # "off" =>
          /\ \A n \in {"foo", "bar"} :
               Includes(r.ignoredNames, n) <=> Includes(BaseIgnoredNames, n)
          /\ Len(r.ignoredNames) = Cardinality({BaseIgnoredNames[i] :
                                                  i \in 1..Len(BaseIgnoredNames)})

\* C4 as stated: without overrides.constructors the constructors policy is
\* no-public for every base accessibility, and every other category without
\* an override inherits the base.
C4_AsStated ==
  Linted =>
  /\ ~HasOverride("constructors") =>
       AccRealOption(options).constructors.accessibility = "no-public"
  /\ \A c \in Categories \ {"constructors"} : ~HasOverride(c) => InheritsBase(c)

\* C4 amended: without overrides.constructors the constructors policy is
\* no-public when the base accessibility is explicit or no-public, and off when
\* the base accessibility is off; every other category without an override
\* inherits the base accessibility, fixWith and ignoredNames.  So a public
\* constructor is not reported under base accessibility off, and under the
\* other two it is reported unless no-public finds its name among the base
\* ignoredNames.
C4_OptionResolution ==
  /\ ~HasOverride("constructors") =>
       AccRealOption(options).constructors.accessibility
         = (IF BaseAccessibility = "off" THEN "off" ELSE "no-public")
  /\ \A c \in Categories \ {"constructors"} : ~HasOverride(c) => InheritsBase(c)
  /\ (Linted /\ visited.kind = "constructor" /\ ~HasOverride("constructors")) =>
       (reports # <<>> <=>
          (BaseAccessibility # "off" /\ visited.accessibility = "public"
             /\ ~(BaseAccessibility = "no-public"
                    /\ Includes(BaseIgnoredNames, visited.key))))

\* A public constructor was visited under base accessibility off without a
\* constructors override, and nothing was reported.
C4_Witness ==
  /\ Linted /\ visited.kind = "constructor" /\ visited.accessibility = "public"
  /\ options.given /\ options.accessibility = "off"
  /\ ~HasOverride("constructors")
  /\ reports = <<>>

(***************************************************************************)
(* unused-import                                                           *)
(***************************************************************************)

IMP_DEFAULT_OPTION == [autoFix |-> "always", ignoredNames |-> <<"^_">>, ignoreJSDoc |-> TRUE]

REGEX_SPECIAL_CHARS == {"[", "]", "{", "}", "(", ")", "?", "*", "+", "|", "\\", "."}

isRegexSpecialChar(str) ==
  \/ StartsWith(str, "^") \/ EndsWith(str, "$")
  \/ \E i \in 1..Len(str) : SubSeq(str, i, i) \in REGEX_SPECIAL_CHARS

\* The capturing groups of the pattern p, as the parser counts them before it
\* reads the pattern: opens holds the places of their parentheses in order,
\* names their names (<<>> for a group without one); named tells that a group
\* has a name, duplicate that two groups have the same name, and refers that
\* the pattern may hold a back reference.
RegExpGroups(p) ==
  LET At(i) == IF i >= 1 /\ i <= Len(p) THEN p[i] ELSE ""
      \* the character at j follows a backslash that escapes it
      Escaped(j) ==
        \E s \in 1..j : /\ \A k \in s..(j - 1) : p[k] = "\\"
                        /\ At(s - 1) # "\\"
                        /\ (j - s) % 2 = 1
      \* the character at j stands in a class: a [ stands between the last ]
      \* before j and j
      InClass(j) ==
        \E o \in 1..(j - 1) :
          /\ p[o] = "[" /\ ~Escaped(o)
          /\ \A c \in o..(j - 1) : ~(p[c] = "]" /\ ~Escaped(c))
      Opens ==
        {j \in 1..Len(p) :
           /\ p[j] = "(" /\ ~Escaped(j) /\ ~InClass(j)
           /\ At(j + 1) # "?" \/ (At(j + 2) = "<" /\ At(j + 3) \notin {"=", "!"})}
      NameEnd(j) ==
        IF \E e \in j..Len(p) : p[e] = ">"
        THEN CHOOSE e \in j..Len(p) : p[e] = ">" /\ \A k \in j..(e - 1) : p[k] # ">"
        ELSE 0
      Found(opens) ==
        [k \in 1..Cardinality(opens) |->
           CHOOSE group \in
             {[open |-> j,
               name |-> IF At(j + 1) # "?" \/ NameEnd(j + 3) = 0 THEN <<>>
                        ELSE SubSeq(p, j + 3, NameEnd(j + 3) - 1)]
              : j \in {o \in opens : Cardinality({m \in opens : m < o}) = k - 1}} : TRUE]
  IN CHOOSE groups \in
       {[opens |-> [k \in 1..Len(found) |-> found[k].open],
         names |-> [k \in 1..Len(found) |-> found[k].name],
         named |-> \E k \in 1..Len(found) : At(found[k].open + 1) = "?",
         duplicate |-> \E j, k \in 1..Len(found) :
                         j < k /\ found[j].name # <<>> /\ found[j].name = found[k].name,
         refers |-> /\ found # <<>>
                    /\ \E j \in 1..(Len(p) - 1) :
                         p[j] = "\\" /\ p[j + 1] \in {"1", "2", "3", "4", "5", "6", "7",
                                                     "8", "9", "k"}]
        : found \in {<<>> \o Found(Opens)}} : TRUE

\* new RegExp(p) and the run of its matcher on the characters n: ok tells that
\* p is a pattern (new RegExp does not throw), ends holds the states in which
\* a match that starts at a place of starts can end, in the order in which the
\* matcher finds them.  A state is <<place, captures>>: a place of n
\* (1..Len(n) + 1) and, for a pattern with back references, what each group
\* has captured, <<>> for nothing or <<first, next>>.
\* The pattern is read as the grammar of ECMAScript with Annex B reads it:
\* disjunctions, groups with and without names, look-around assertions (a
\* look-behind matches backwards), ^ $ \b \B, quantifiers (* + ? {n} {n,}
\* {n,m}, lazy or not), back references by number and by name, classes with
\* ranges, and the escapes.
RegExpExec(p, n, starts) ==
  CHOOSE exec \in
    {LET eof == Len(n) + 1
         G == Len(groups.opens)
         At(i) == IF i >= 1 /\ i <= Len(p) THEN p[i] ELSE ""
         Fail == [ok |-> FALSE, next |-> 0, ends |-> <<>>]
         IsWordAt(s) == s >= 1 /\ s < eof /\ n[s] \in WordChars
         SyntaxChars == {"^", "$", "\\", ".", "*", "+", "?", "(", ")", "[", "{", "|"}
         \* a followed by the states of b that a does not hold
         Merge(a, b) ==
           IF a = <<>> THEN b
           ELSE IF b = <<>> THEN a
           ELSE a \o SelectSeq(b, LAMBDA c : \A j \in 1..Len(a) : a[j] # c)
         \* The lists of ss one after the other, each state where it comes first.
         Flat(ss) ==
           LET Before(f, e) == f[1] < e[1] \/ (f[1] = e[1] /\ f[2] < e[2])
           IN CHOOSE flat \in
                {<<>> \o [t \in 1..Cardinality(first) |->
                            CHOOSE state \in
                              {ss[e[1]][e[2]]
                               : e \in {f \in first :
                                          Cardinality({g \in first : Before(g, f)}) = t - 1}}
                              : TRUE]
                 : first \in
                     {{e \in all : \A f \in all : Before(f, e) => ss[f[1]][f[2]] # ss[e[1]][e[2]]}
                      : all \in {UNION {{<<k, m>> : m \in 1..Len(ss[k])} : k \in 1..Len(ss)}}}}
                : TRUE
         \* [value, next] of the decimal digits from j on; next = j without
         \* any.  A value beyond 2^31 - 1 counts as 2^31 - 1.
         RECURSIVE Digits(_, _)
         Digits(j, acc) ==
           IF At(j) \in DigitChars
           THEN Digits(j + 1, IF acc > (2147483647 - HexValue(At(j))) \div 10
                              THEN 2147483647
                              ELSE acc * 10 + HexValue(At(j)))
           ELSE [value |-> acc, next |-> j]
         \* The quantifier {n}, {n,} or {n,m} at i: max = -1 without upper bound.
         Brace(i) ==
           IF At(i) # "{"
           THEN [has |-> FALSE, ok |-> TRUE, min |-> 0, max |-> 0, lazy |-> FALSE, next |-> i]
           ELSE CHOOSE brace \in
             {IF low.next = i + 1
              THEN [has |-> FALSE, ok |-> TRUE, min |-> 0, max |-> 0, lazy |-> FALSE,
                    next |-> i]
              ELSE IF At(low.next) = "}"
              THEN [has |-> TRUE, ok |-> TRUE, min |-> low.value, max |-> low.value,
                    lazy |-> FALSE, next |-> low.next + 1]
              ELSE IF At(low.next) = "," /\ At(low.next + 1) = "}"
              THEN [has |-> TRUE, ok |-> TRUE, min |-> low.value, max |-> 0 - 1,
                    lazy |-> FALSE, next |-> low.next + 2]
              ELSE IF At(low.next) = "," /\ high.next > low.next + 1 /\ At(high.next) = "}"
              THEN [has |-> TRUE, ok |-> high.value >= low.value, min |-> low.value,
                    max |-> high.value, lazy |-> FALSE, next |-> high.next + 1]
              ELSE [has |-> FALSE, ok |-> TRUE, min |-> 0, max |-> 0, lazy |-> FALSE,
                    next |-> i]
              : <<low, high>> \in {<<d, Digits(d.next + 1, 0)>> : d \in {Digits(i + 1, 0)}}}
              : TRUE
         Quantifier(i) ==
           CHOOSE quantifier \in
             {IF q.has /\ At(q.next) = "?"
              THEN [q EXCEPT !.next = q.next + 1, !.lazy = TRUE] ELSE q
              : q \in {CASE At(i) = "*" -> [has |-> TRUE, ok |-> TRUE, min |-> 0,
                                            max |-> 0 - 1, lazy |-> FALSE, next |-> i + 1]
                         [] At(i) = "+" -> [has |-> TRUE, ok |-> TRUE, min |-> 1,
                                            max |-> 0 - 1, lazy |-> FALSE, next |-> i + 1]
                         [] At(i) = "?" -> [has |-> TRUE, ok |-> TRUE, min |-> 0,
                                            max |-> 1, lazy |-> FALSE, next |-> i + 1]
                         [] OTHER -> Brace(i)}} : TRUE
         \* The escape at i (p[i] is the backslash): [ok, next, kind, code]; kind
         \* is "char" (the character of code), a class letter, "b"/"B", or
         \* "backref" (the group of number code).  A decimal escape is a back
         \* reference when the pattern has that many groups, and \k is one when
         \* the pattern has a group name; in a class there is none.
         Escape(i, inClass) ==
           LET e == At(i + 1)
               Char(code, next) == [ok |-> TRUE, next |-> next, kind |-> "char", code |-> code]
               Wrong == [ok |-> FALSE, next |-> i + 2, kind |-> "char", code |-> 0]
               octal == {j \in (i + 1)..(i + 3) :
                           /\ \A k \in (i + 1)..j : At(k) \in {"0", "1", "2", "3", "4", "5", "6", "7"}
                           /\ (j = i + 3) => At(i + 1) \in {"0", "1", "2", "3"}}
               RECURSIVE OctalValue(_, _, _)
               OctalValue(j, to, acc) ==
                 IF j > to THEN acc ELSE OctalValue(j + 1, to, acc * 8 + HexValue(At(j)))
               RECURSIVE NameEnd(_)
               NameEnd(j) ==
                 IF At(j) = "" THEN 0 ELSE IF At(j) = ">" THEN j ELSE NameEnd(j + 1)
               Named(name) == {k \in 1..G : name # <<>> /\ groups.names[k] = name}
           IN CASE e = "" -> Wrong
                [] e \in {"d", "D", "w", "W", "s", "S"} ->
                     [ok |-> TRUE, next |-> i + 2, kind |-> e, code |-> 0]
                [] e \in {"b", "B"} /\ ~inClass ->
                     [ok |-> TRUE, next |-> i + 2, kind |-> e, code |-> 0]
                [] e = "b" /\ inClass -> Char(8, i + 2)
                [] e = "t" -> Char(9, i + 2)
                [] e = "n" -> Char(10, i + 2)
                [] e = "v" -> Char(11, i + 2)
                [] e = "f" -> Char(12, i + 2)
                [] e = "r" -> Char(13, i + 2)
                [] e = "u" /\ \A k \in (i + 2)..(i + 5) : At(k) \in HexChars ->
                     Char(((HexValue(At(i + 2)) * 16 + HexValue(At(i + 3))) * 16
                             + HexValue(At(i + 4))) * 16 + HexValue(At(i + 5)), i + 6)
                [] e = "x" /\ \A k \in (i + 2)..(i + 3) : At(k) \in HexChars ->
                     Char(HexValue(At(i + 2)) * 16 + HexValue(At(i + 3)), i + 4)
                [] e = "c" /\ At(i + 2) \in WordChars \ (DigitChars \cup {"_"}) ->
                     Char(CodeOf(At(i + 2)) % 32, i + 3)
                [] e = "c" /\ inClass /\ At(i + 2) \in DigitChars \cup {"_"} ->
                     Char(CodeOf(At(i + 2)) % 32, i + 3)
                [] e = "c" -> [ok |-> TRUE, next |-> i + 1, kind |-> "char", code |-> 92]
                [] e = "k" /\ groups.named ->
                     IF inClass \/ At(i + 2) # "<" \/ NameEnd(i + 3) = 0 THEN Wrong
                     ELSE CHOOSE k1 \in
                       {IF group = {} THEN Wrong
                        ELSE [ok |-> TRUE, next |-> close + 1, kind |-> "backref",
                              code |-> CHOOSE k \in group : TRUE]
                        : <<close, group>> \in
                            {<<end, Named(SubSeq(p, i + 3, end - 1))>>
                             : end \in {NameEnd(i + 3)}}} : TRUE
                [] e \in DigitChars \ {"0"} /\ ~inClass /\ Digits(i + 1, 0).value <= G ->
                     CHOOSE k2 \in
                       {[ok |-> TRUE, next |-> d.next, kind |-> "backref", code |-> d.value]
                        : d \in {Digits(i + 1, 0)}} : TRUE
                [] octal # {} ->
                     CHOOSE char \in {Char(OctalValue(i + 1, last, 0), last + 1)
                                      : last \in {j \in octal : \A k \in octal : k <= j}} : TRUE
                [] OTHER -> Char(CodeOf(e), i + 2)
         Kind(kind, code, ch) ==
           CASE kind = "char" -> CodeOf(ch) = code
             [] kind = "d" -> ch \in DigitChars
             [] kind = "D" -> ch \notin DigitChars
             [] kind = "w" -> ch \in WordChars
             [] kind = "W" -> ch \notin WordChars
             [] kind = "s" -> ch \in WhiteSpaceChars
             [] kind = "S" -> ch \notin WhiteSpaceChars
         \* The state after the back reference to group k in state c, none when
         \* the characters differ; a group that has captured nothing is matched
         \* by nothing.
         Referred(c, k, back) ==
           LET cap == c[2][k]
               len == cap[2] - cap[1]
               at == IF back THEN c[1] - len ELSE c[1]
           IN IF cap = <<>> THEN <<c>>
              ELSE IF at < 1 \/ at + len > eof THEN <<>>
              ELSE IF \A t \in 0..(len - 1) : n[cap[1] + t] = n[at + t]
              THEN <<<<IF back THEN at ELSE at + len, c[2]>>>>
              ELSE <<>>
         \* The place of the ] that closes the class opened before j, 0 without one.
         RECURSIVE ClassEnd(_)
         ClassEnd(j) ==
           IF At(j) = "" THEN 0
           ELSE IF At(j) = "]" THEN j
           ELSE IF At(j) = "\\" THEN (IF At(j + 1) = "" THEN 0 ELSE ClassEnd(j + 2))
           ELSE ClassEnd(j + 1)
         \* The members of a class from j to the place before end: [ok, has]. A
         \* member is an atom or, between two characters, a range.
         RECURSIVE ClassRanges(_, _, _)
         ClassRanges(j, end, ch) ==
           IF j >= end THEN [ok |-> TRUE, has |-> FALSE]
           ELSE CHOOSE ranges \in
             {IF ~a.ok \/ (ranged /\ ~b.ok) \/ (both /\ a.code > b.code) \/ ~rest.ok
              THEN [ok |-> FALSE, has |-> FALSE]
              ELSE [ok |-> TRUE,
                    has |-> \/ rest.has
                            \/ both /\ CodeOf(ch) >= a.code /\ CodeOf(ch) <= b.code
                            \/ ~both /\ Kind(a.kind, a.code, ch)]
              : <<a, b, ranged, both, rest>> \in
                  {<<m[1], m[2], m[3], m[4],
                     ClassRanges(IF m[4] THEN m[2].next ELSE m[1].next, end, ch)>>
                   : m \in {<<f[1], f[2], f[3], f[3] /\ f[1].kind = "char" /\ f[2].kind = "char">>
                            : f \in {<<c[1], c[2], c[1].ok /\ At(c[1].next) = "-" /\ c[1].next + 1 < end>>
                                     : c \in {<<g, IF At(g.next + 1) = "\\" THEN Escape(g.next + 1, TRUE)
                                                   ELSE [ok |-> TRUE, next |-> g.next + 2, kind |-> "char",
                                                         code |-> CodeOf(At(g.next + 1))]>>
                                              : g \in {IF At(j) = "\\" THEN Escape(j, TRUE)
                                                       ELSE [ok |-> TRUE, next |-> j + 1, kind |-> "char",
                                                             code |-> CodeOf(At(j))]}}}}}} : TRUE
         Class(i, ch) ==
           CHOOSE class \in
             {IF end = 0 THEN [ok |-> FALSE, has |-> FALSE, next |-> 0]
              ELSE CHOOSE found \in
                     {[ok |-> members.ok, has |-> members.has # (At(i + 1) = "^"), next |-> end + 1]
                      : members \in {ClassRanges(IF At(i + 1) = "^" THEN i + 2 ELSE i + 1, end, ch)}}
                     : TRUE
              : end \in {ClassEnd(i + 1)}} : TRUE
         \* The group opened at i: where its disjunction starts and what it is.
         Group(i) ==
           IF At(i + 1) # "?" THEN [ok |-> TRUE, kind |-> "capture", start |-> i + 1]
           ELSE CASE At(i + 2) = ":" -> [ok |-> TRUE, kind |-> "group", start |-> i + 3]
                  [] At(i + 2) = "=" -> [ok |-> TRUE, kind |-> "ahead", start |-> i + 3]
                  [] At(i + 2) = "!" -> [ok |-> TRUE, kind |-> "notAhead", start |-> i + 3]
                  [] At(i + 2) = "<" /\ At(i + 3) = "=" ->
                       [ok |-> TRUE, kind |-> "behind", start |-> i + 4]
                  [] At(i + 2) = "<" /\ At(i + 3) = "!" ->
                       [ok |-> TRUE, kind |-> "notBehind", start |-> i + 4]
                  [] At(i + 2) = "<" /\ At(i + 3) \notin {"=", "!"} ->
                       LET closes == {j \in (i + 3)..Len(p) : p[j] = ">"}
                           close == CHOOSE j \in closes : \A k \in closes : j <= k
                       IN IF closes = {} THEN [ok |-> FALSE, kind |-> "capture", start |-> 0]
                          ELSE [ok |-> /\ close > i + 3
                                       /\ At(i + 3) \notin DigitChars
                                       /\ \A k \in (i + 3)..(close - 1) :
                                            p[k] \in WordChars \cup {"$"},
                                kind |-> "capture", start |-> close + 1]
                  [] OTHER -> [ok |-> FALSE, kind |-> "group", start |-> 0]
         \* The place after the pattern characters from i on that stand for
         \* themselves and have no quantifier.
         LiteralEnd(i) ==
           CHOOSE j \in i..(Len(p) + 1) :
             /\ At(j) \in SyntaxChars \cup {""} \/ At(j + 1) \in {"*", "+", "?", "{"}
             /\ \A k \in i..(j - 1) :
                  At(k) \notin SyntaxChars /\ At(k + 1) \notin {"*", "+", "?", "{"}
         \* The atoms that take one character.
         CharKinds == {"self", "any", "class", "char", "d", "D", "w", "W", "s", "S"}
         SomeAtom(ok, next, quantifiable, kind, code) ==
           [ok |-> ok, next |-> next, quantifiable |-> quantifiable, kind |-> kind, code |-> code]
         \* The productions of the pattern grammar, read from place i with the
         \* states S in which a match may stand; back tells that the matcher
         \* goes backwards.  Disjunction, Alternative and Term give [ok, next,
         \* ends].  Atom gives [ok, next, quantifiable, kind, code]: what the
         \* atom at i is, with the character, the code, the group referred to
         \* or the start of the group's disjunction.  Class gives [ok, has,
         \* next] of the class at i and the character count.  Takes tells of
         \* each character of n whether the atom takes it.  Step gives the states
         \* after one match of the atom.  Each gives the states after the rule
         \* count[1] from each state of S in turn, where the rule is Group (the
         \* group at i), Run (the quantified atom at i that takes one
         \* character) or Repeat (any other quantified atom at i).  The count
         \* of Step, Takes and Group is the atom, that of Run and Repeat is
         \* <<min, max, lazy, the groups in the atom, the atom>>.
         RECURSIVE Production(_, _, _, _, _)
         Production(rule, place, from, times, backwards) ==
           CHOOSE production \in
             {CASE rule = "Disjunction" ->
                     CHOOSE d1 \in
                       {IF ~a.ok THEN Fail
                        ELSE IF At(a.next) # "|" THEN a
                        ELSE CHOOSE d2 \in
                               {IF ~d.ok THEN Fail
                                ELSE [ok |-> TRUE, next |-> d.next, ends |-> Merge(a.ends, d.ends)]
                                : d \in {Production("Disjunction", a.next + 1, S, 0, back)}} : TRUE
                        : a \in {Production("Alternative", i, S, 0, back)}} : TRUE
                [] rule = "Alternative" ->
                     IF At(i) \in {"", "|", ")"} THEN [ok |-> TRUE, next |-> i, ends |-> S]
                     ELSE IF ~back /\ At(i) \notin SyntaxChars
                             /\ At(i + 1) \notin {"*", "+", "?", "{"}
                     THEN \* pattern characters without quantifier match themselves
                          CHOOSE a0 \in
                            {Production(
                               "Alternative", end,
                               SelectSeq([k \in 1..Len(S) |-> <<S[k][1] + (end - i), S[k][2]>>],
                                         LAMBDA c :
                                           /\ c[1] <= eof
                                           /\ \A t \in 1..(end - i) : n[c[1] - t] = At(end - t)),
                               0, FALSE)
                             : end \in {LiteralEnd(i)}} : TRUE
                     ELSE IF ~back
                     THEN CHOOSE a1 \in
                            {IF ~t.ok THEN Fail
                             ELSE Production("Alternative", t.next, t.ends, 0, FALSE)
                             : t \in {Production("Term", i, S, 0, FALSE)}} : TRUE
                     ELSE \* backwards, the terms after this one are matched first
                          CHOOSE a2 \in
                            {IF ~read.ok THEN Fail
                             ELSE CHOOSE a3 \in
                                    {IF ~rest.ok THEN Fail
                                     ELSE [ok |-> TRUE, next |-> rest.next,
                                           ends |-> Production("Term", i, rest.ends, 0, TRUE).ends]
                                     : rest \in {Production("Alternative", read.next, S, 0, TRUE)}}
                                    : TRUE
                             : read \in {Production("Term", i, <<>>, 0, TRUE)}} : TRUE
                [] rule = "Term" ->
                     CHOOSE t1 \in
                       {IF ~atom.ok THEN Fail
                        ELSE CHOOSE t2 \in
                          {IF ~q.has
                           THEN [ok |-> TRUE, next |-> atom.next,
                                 ends |-> Production("Step", i, S, atom, back)]
                           ELSE IF ~atom.quantifiable \/ ~q.ok THEN Fail
                           ELSE [ok |-> TRUE, next |-> q.next,
                                 ends |-> Production(
                                            "Each", i, S,
                                            <<IF atom.kind \in CharKinds THEN "Run" ELSE "Repeat",
                                              <<q.min, q.max, q.lazy,
                                                IF groups.refers
                                                THEN {k \in 1..G : /\ groups.opens[k] >= i
                                                                   /\ groups.opens[k] < atom.next}
                                                ELSE {},
                                                atom>>>>,
                                            back)]
                           : q \in {Quantifier(atom.next)}} : TRUE
                        : atom \in {Production("Atom", i, <<>>, 0, back)}} : TRUE
                [] rule = "Atom" ->
                     CASE At(i) \in {"^", "$"} -> SomeAtom(TRUE, i + 1, FALSE, At(i), 0)
                       [] At(i) = "\\" ->
                            CHOOSE p1 \in
                              {SomeAtom(escape.ok, escape.next, escape.kind \notin {"b", "B"},
                                        escape.kind, escape.code)
                               : escape \in {Escape(i, FALSE)}} : TRUE
                       [] At(i) = "[" ->
                            CHOOSE p2 \in
                              {SomeAtom(class.ok, class.next, TRUE, "class", 0)
                               : class \in {Production("Class", i, <<>>, "", back)}} : TRUE
                       [] At(i) = "(" ->
                            CHOOSE p3 \in
                              {IF ~group.ok THEN SomeAtom(FALSE, 0, FALSE, "group", 0)
                               ELSE CHOOSE p4 \in
                                      {SomeAtom(inner.ok /\ At(inner.next) = ")", inner.next + 1,
                                                group.kind \notin {"behind", "notBehind"},
                                                group.kind, group.start)
                                       : inner \in {Production("Disjunction", group.start, <<>>, 0,
                                                               FALSE)}}
                                      : TRUE
                               : group \in {Group(i)}} : TRUE
                       [] At(i) \in {"*", "+", "?"} -> SomeAtom(FALSE, 0, FALSE, "self", At(i))
                       [] At(i) = "{" -> SomeAtom(~Brace(i).has, i + 1, TRUE, "self", "{")
                       [] At(i) = "." -> SomeAtom(TRUE, i + 1, TRUE, "any", 0)
                       [] OTHER -> SomeAtom(TRUE, i + 1, TRUE, "self", At(i))
                [] rule = "Class" -> Class(i, count)
                [] rule = "Takes" ->
                     <<>> \o [t \in 1..Len(n) |->
                                CASE count.kind = "self" -> n[t] = count.code
                                  [] count.kind = "any" -> n[t] \notin LineTerminators
                                  [] count.kind = "class" ->
                                       Production("Class", i, <<>>, n[t], back).has
                                  [] OTHER -> Kind(count.kind, count.code, n[t])]
                [] rule = "Step" ->
                     CASE count.kind = "^" -> SelectSeq(S, LAMBDA c : c[1] = 1)
                       [] count.kind = "$" -> SelectSeq(S, LAMBDA c : c[1] = eof)
                       [] count.kind = "b" ->
                            SelectSeq(S, LAMBDA c : IsWordAt(c[1] - 1) # IsWordAt(c[1]))
                       [] count.kind = "B" ->
                            SelectSeq(S, LAMBDA c : IsWordAt(c[1] - 1) = IsWordAt(c[1]))
                       [] count.kind = "backref" ->
                            CHOOSE s1 \in
                              {<<>> \o [k \in 1..Len(matched) |->
                                          Referred(matched[k], count.code, back)[1]]
                               : matched \in
                                   {SelectSeq(S, LAMBDA c : Referred(c, count.code, back) # <<>>)}}
                              : TRUE
                       [] count.kind \in CharKinds ->
                            \* the next character, or the one before when the
                            \* matcher goes backwards
                            IF S = <<>> THEN <<>>
                            ELSE CHOOSE s2 \in
                              {IF back
                               THEN SelectSeq([k \in 1..Len(S) |-> <<S[k][1] - 1, S[k][2]>>],
                                              LAMBDA c : c[1] >= 1 /\ takes[c[1]])
                               ELSE SelectSeq([k \in 1..Len(S) |-> <<S[k][1] + 1, S[k][2]>>],
                                              LAMBDA c : c[1] <= eof /\ takes[c[1] - 1])
                               : takes \in {Production("Takes", i, <<>>, count, back)}} : TRUE
                       [] OTHER -> Production("Each", i, S, <<"Group", count>>, back)
                [] rule = "Each" ->
                     IF S = <<>> THEN <<>>
                     ELSE IF Len(S) = 1 THEN Production(count[1], i, S, count[2], back)
                     ELSE CHOOSE e1 \in
                            {Flat(each)
                             : each \in
                                 {<<>> \o [k \in 1..Len(S) |->
                                             Production(count[1], i, <<S[k]>>, count[2], back)]}}
                            : TRUE
                [] rule = "Group" ->
                     CASE count.kind = "group" ->
                            Production("Disjunction", count.code, S, 0, back).ends
                       [] count.kind = "capture" ->
                            CHOOSE g2 \in
                              {IF ~groups.refers THEN inner
                               ELSE <<>> \o
                                 [k \in 1..Len(inner) |->
                                    <<inner[k][1],
                                      [inner[k][2] EXCEPT ![index] =
                                         IF back THEN <<inner[k][1], S[1][1]>>
                                         ELSE <<S[1][1], inner[k][1]>>]>>]
                               : inner \in {Production("Disjunction", count.code, S, 0, back).ends},
                                 index \in {k \in 1..G : groups.opens[k] = i}} : TRUE
                       [] OTHER ->
                            \* an assertion: its first match stays
                            CHOOSE g3 \in
                              {IF count.kind \in {"notAhead", "notBehind"}
                               THEN (IF inside = <<>> THEN S ELSE <<>>)
                               ELSE IF inside = <<>> THEN <<>>
                               ELSE <<<<S[1][1], inside[1][2]>>>>
                               : inside \in
                                   {Production("Disjunction", count.code, S, 0,
                                               count.kind \in {"behind", "notBehind"}).ends}}
                              : TRUE
                [] rule = "Run" ->
                     \* the atom takes the characters up to the first that it
                     \* does not take: as many as max allows first, unless lazy
                     CHOOSE u1 \in
                       {IF most < count[1] THEN <<>>
                        ELSE <<>> \o
                          [k \in 1..(most - count[1] + 1) |->
                             <<IF back
                               THEN S[1][1] - (IF count[3] THEN count[1] + k - 1 ELSE most - k + 1)
                               ELSE S[1][1] + (IF count[3] THEN count[1] + k - 1 ELSE most - k + 1),
                               S[1][2]>>]
                        : most \in
                            {CHOOSE r \in 0..Len(n) :
                               /\ count[2] < 0 \/ r <= count[2]
                               /\ \A t \in 1..r :
                                    IF back THEN S[1][1] - t >= 1 /\ takes[S[1][1] - t]
                                    ELSE S[1][1] + t <= eof /\ takes[S[1][1] + t - 1]
                               /\ \/ r = count[2]
                                  \/ IF back
                                     THEN ~(S[1][1] - r - 1 >= 1 /\ takes[S[1][1] - r - 1])
                                     ELSE ~(S[1][1] + r + 1 <= eof /\ takes[S[1][1] + r])
                             : takes \in {Production("Takes", i, <<>>, count[5], back)}}} : TRUE
                [] rule = "Repeat" ->
                     \* the groups in the atom have captured nothing when a
                     \* repetition starts, and a repetition beyond min that
                     \* matches nothing is given up
                     IF count[2] = 0 \/ S = <<>> THEN S
                     ELSE CHOOSE r2 \in
                       {IF count[1] > 0 /\ more = fresh THEN fresh
                        ELSE CHOOSE r3 \in
                          {IF count[1] > 0 THEN later
                           ELSE IF count[3] THEN Merge(S, later)
                           ELSE Merge(later, S)
                           : later \in
                               {Production(
                                  IF Len(more) = 1 THEN "Repeat" ELSE "Each", i, more,
                                  IF Len(more) = 1 THEN left ELSE <<"Repeat", left>>, back)
                                : left \in
                                    {<<IF count[1] > 0 THEN count[1] - 1 ELSE 0,
                                       IF count[2] < 0 THEN count[2] ELSE count[2] - 1,
                                       count[3], count[4], count[5]>>}}} : TRUE
                        : <<fresh, more>> \in
                            {<<f, SelectSeq(Production("Step", i, f, count[5], back),
                                            LAMBDA c : count[1] > 0 \/ c[1] # S[1][1])>>
                             : f \in {<< <<S[1][1],
                                           IF count[4] = {} THEN S[1][2]
                                           ELSE [k \in 1..G |->
                                                   IF k \in count[4] THEN <<>>
                                                   ELSE S[1][2][k]]>> >>}}} : TRUE
              : i \in {place}, S \in {from}, count \in {times}, back \in {backwards}} : TRUE
     IN CHOOSE run \in
          {[ok |-> whole.ok /\ whole.next = Len(p) + 1 /\ ~groups.duplicate,
            ends |-> whole.ends]
           : whole \in
               {Production("Disjunction", 1,
                           <<>> \o [k \in 1..Len(starts) |->
                                      <<starts[k],
                                        IF groups.refers
                                        THEN [g \in 1..Len(groups.opens) |-> <<>>]
                                        ELSE <<>>>>],
                           0, FALSE)}} : TRUE
     : groups \in {RegExpGroups(p)}} : TRUE

\* new RegExp(str) does not throw.
RegExpCompiles(str) == RegExpExec(Chars(str), <<>>, <<>>).ok

\* RegExp.prototype.test of the pattern str on the characters n: a match may
\* start at any place of n.
RegExpTest(str, n) ==
  RegExpExec(Chars(str), n, [k \in 1..(Len(n) + 1) |-> k]).ends # <<>>

\* A pattern as realOption keeps it: a RegExp, or the string itself when it has
\* no special character or new RegExp throws on it.
stringToRegExp(str) ==
  IF isRegexSpecialChar(str) /\ RegExpCompiles(str)
  THEN [regexp |-> TRUE, source |-> str]
  ELSE [regexp |-> FALSE, source |-> str]

\* The letters in the order of the default collation: a < A < b < B < ...
Letters ==
  <<"a", "A", "b", "B", "c", "C", "d", "D", "e", "E", "f", "F", "g", "G", "h", "H",
    "i", "I", "j", "J", "k", "K", "l", "L", "m", "M", "n", "N", "o", "O", "p", "P",
    "q", "Q", "r", "R", "s", "S", "t", "T", "u", "U", "v", "V", "w", "W", "x", "X",
    "y", "Y", "z", "Z">>

isIgnoredName(name, ignores) ==
  \E i \in 1..Len(ignores) :
    IF ignores[i].regexp THEN RegExpTest(ignores[i].source, Chars(name))
    ELSE ignores[i].source = name

\* value.replace(/[.*+?^${}()|[\]\\]/g, '\\$&')
escapeRegExp(value) ==
  LET cs == Chars(value)
      RECURSIVE Escaped(_)
      Escaped(i) ==
        IF i > Len(cs) THEN ""
        ELSE (IF cs[i] \in {".", "*", "+", "?", "^", "$", "{", "}", "(", ")", "|", "[", "]",
                            "\\"}
              THEN "\\" \o cs[i] ELSE cs[i]) \o Escaped(i + 1)
  IN Escaped(1)

\* The source of the pattern; its u flag changes nothing in how it is read.
createJsDocPattern(name) ==
  LET identifier == escapeRegExp(name)
  IN "(?:@(?:link|linkcode|linkplain|see)\\s+" \o identifier \o "\\b)|"
       \o "(?:\\{@(?:link|linkcode|linkplain)\\s+" \o identifier \o "\\b\\})|"
       \o "(?:[@{](?:type|typedef|param|returns?|template|augments|extends|implements)"
       \o "\\s+[^}]*\\b" \o identifier \o "\\b)"

\* createJsDocPattern(name).test(value)
testJsDocPattern(value, name) == RegExpTest(createJsDocPattern(name), Chars(value))

\* The comments and the names of the modelled files.
JsDocTested == {CommentValue(comment) : comment \in BlockComments} \X {"Foo", "baz", "_bar"}

\* Their tests with the results, each made once and kept; any other test is
\* made when it is asked for.
JsDocTests == {<<test, testJsDocPattern(test[1], test[2])>> : test \in JsDocTested}

isUsedInJsDoc(code, name) ==
  \E p \in 1..Len(code) :
    /\ IsBlockComment(code[p])
    /\ \E test \in {<<CommentValue(code[p]), name>>} :
         IF test \in JsDocTested THEN <<test, TRUE>> \in JsDocTests
         ELSE testJsDocPattern(test[1], test[2])

\* isUsed without the ignoreJSDoc early return.
isUsed_AlwaysJsDoc(code, specifier, ignoreJSDoc) ==
  specifier.references > 0 \/ isUsedInJsDoc(code, specifier.name)

isUsed(code, specifier, ignoreJSDoc) ==
  IF specifier.references > 0 THEN TRUE
  ELSE IF ignoreJSDoc THEN FALSE
  ELSE isUsedInJsDoc(code, specifier.name)

\* sourceCode.getTokenAfter(node, {includeComments}): the position of the first
\* token (or comment) that starts at or after offset from, 0 when none.
RECURSIVE getTokenAfter(_, _, _)
getTokenAfter(code, from, includeComments) ==
  IF from + 1 > Len(code) THEN 0
  ELSE IF IsSpace(code[from + 1]) \/ (IsComment(code[from + 1]) /\ ~includeComments)
       THEN getTokenAfter(code, from + 1, includeComments)
       ELSE from + 1

\* sourceCode.getTokenAfter(node, token => token.value === value).
RECURSIVE getTokenAfterValue(_, _, _)
getTokenAfterValue(code, from, value) ==
  IF from + 1 > Len(code) THEN 0
  ELSE IF code[from + 1] = value THEN from + 1
       ELSE getTokenAfterValue(code, from + 1, value)

\* sourceCode.getTokenBefore(node): the last token that ends at or before offset to.
RECURSIVE getTokenBefore(_, _)
getTokenBefore(code, to) ==
  IF to < 1 THEN 0
  ELSE IF IsSpace(code[to]) \/ IsComment(code[to]) THEN getTokenBefore(code, to - 1)
       ELSE to

\* sourceCode.getTokenBefore(node, token => token.value === value).
RECURSIVE getTokenBeforeValue(_, _, _)
getTokenBeforeValue(code, to, value) ==
  IF to < 1 THEN 0
  ELSE IF code[to] = value THEN to
       ELSE getTokenBeforeValue(code, to - 1, value)

\* loc.line of the character offset off of the file: one more than the line
\* terminators before it, LF, CR and CR LF as one, wherever they stand (in
\* white space, in a comment).
LineOf(code, off) ==
  CHOOSE line \in
    {1 + Cardinality({q \in 1..off :
           \/ SubSeq(text, q, q) = "\n"
           \/ /\ SubSeq(text, q, q) = "\r"
              /\ (q = Len(text) \/ SubSeq(text, q + 1, q + 1) # "\n")})
       : text \in {TextOf(code)}} : TRUE

Repeat(atom, count) == [i \in 1..count |-> atom]

Max(a, b) == IF a > b THEN a ELSE b

\* The fixes of one report, as the engine merges them: one replacement over
\* [start, end] that keeps the text between the removed pieces.
RemoveFix(start, end, kept) ==
  [has |-> TRUE, trim |-> <<0, 0>>, range |-> <<start, end>>, text |-> kept]

buildRemoveImportFix(autoFix, code, node) ==
  IF ~autoFix THEN NoFix
  ELSE LET nextToken == getTokenAfter(code, node.range[2], TRUE)
       IN IF nextToken = 0 THEN RemoveFix(node.range[1], node.range[2], <<>>)
          ELSE LET newLinesBetween ==
                     LineOf(code, Off(code, nextToken - 1))
                       - LineOf(code, Off(code, node.range[1]))
                   count == Max(0, newLinesBetween - 1)
               IN RemoveFix(node.range[1], nextToken - 1, Repeat("\n", count))

NamedSpecifiers(specifiers) == SelectSeq(specifiers, LAMBDA s : s.nodeType = "ImportSpecifier")

buildRemoveSpecifierFix(autoFix, code, declaration, k) ==
  LET specifier == declaration.specifiers[k]
      start == specifier.range[1]
      end == specifier.range[2]
  IN IF ~autoFix THEN NoFix
     ELSE IF Len(declaration.specifiers) = 1
     THEN buildRemoveImportFix(TRUE, code, declaration)
     ELSE IF k # Len(declaration.specifiers)
     THEN LET comma == getTokenAfterValue(code, end, ",")
              prevToken == getTokenBefore(code, start)
          IN IF comma = 0 THEN NoFix
             ELSE RemoveFix(IF prevToken > 0 THEN prevToken ELSE start, comma,
                            SubSeq(code, end + 1, comma - 1))
     ELSE IF Len(NamedSpecifiers(declaration.specifiers)) = 1
             /\ specifier.nodeType = "ImportSpecifier"
     THEN LET commaToken == getTokenBeforeValue(code, start, ",")
              closingBrace == getTokenAfterValue(code, end, "}")
          IN IF commaToken = 0 \/ closingBrace = 0 THEN NoFix
             ELSE RemoveFix(commaToken - 1, closingBrace, <<>>)
     ELSE LET commaBefore == getTokenBeforeValue(code, start, ",")
          IN IF commaBefore = 0 THEN RemoveFix(start, end, <<>>)
             ELSE RemoveFix(commaBefore - 1, end, <<>>)

SpecifierNames(specifiers) == [i \in 1..Len(specifiers) |-> specifiers[i].name]

\* The positions in the declaration of the specifiers the filter keeps.
unusedSpecifiers(code, node, opts) ==
  SelectSeq([i \in 1..Len(node.specifiers) |-> i],
            LAMBDA i : /\ ~isIgnoredName(node.specifiers[i].name, opts.ignoredNames)
                       /\ ~isUsed(code, node.specifiers[i], opts.ignoreJSDoc))

\* checkUnusedImporter that never takes the whole-declaration branch.
checkUnusedImporter_EachSpecifier(code, node, opts) ==
  LET unused == unusedSpecifiers(code, node, opts)
  IN [j \in 1..Len(unused) |->
        Report("unusedSingleImport", node.specifiers[unused[j]],
               buildRemoveSpecifierFix(opts.autoFix, code, node, unused[j]),
               <<node.specifiers[unused[j]].name>>)]

checkUnusedImporter(code, node, opts) ==
  IF Len(node.specifiers) < 1 THEN <<>>
  ELSE CHOOSE reported \in
    {IF Len(unused) < 1 THEN <<>>
     ELSE IF Len(unused) = Len(node.specifiers)
     THEN <<Report("unusedAllImport", node,
                   buildRemoveImportFix(opts.autoFix, code, node),
                   SpecifierNames(node.specifiers))>>
     ELSE [j \in 1..Len(unused) |->
             Report("unusedSingleImport", node.specifiers[unused[j]],
                    buildRemoveSpecifierFix(opts.autoFix, code, node, unused[j]),
                    <<node.specifiers[unused[j]].name>>)]
     : unused \in {unusedSpecifiers(code, node, opts)}} : TRUE

\* create: the options the listener works with.
ImpRealOption(opts) ==
  LET autoFix == IF opts.given /\ opts.autoFix # U THEN opts.autoFix
                 ELSE IMP_DEFAULT_OPTION.autoFix
      names == IF opts.given /\ opts.ignoredNames # <<>> THEN opts.ignoredNames[1]
               ELSE IMP_DEFAULT_OPTION.ignoredNames
      jsdoc == IF opts.given /\ opts.ignoreJSDoc # <<>> THEN opts.ignoreJSDoc[1]
               ELSE IMP_DEFAULT_OPTION.ignoreJSDoc
  IN [autoFix |-> autoFix = "always",
      ignoredNames |-> [i \in 1..Len(names) |-> stringToRegExp(names[i])],
      ignoreJSDoc |-> jsdoc]

(* The configurations and the import declarations the rule is run on. *)
ImpNoOptions == [given |-> FALSE, autoFix |-> U, ignoredNames |-> <<>>, ignoreJSDoc |-> <<>>]

ImpIgnoredNames ==
  {<<>>, << <<>> >>, << <<"^_.*">> >>, << <<"Foo">> >>, << <<"Fo", "[">> >>,
   << <<"o$">> >>, << <<"b.z", "_bar">> >>}

ImpOptions ==
  {ImpNoOptions} \cup
  [given : {TRUE}, autoFix : {U, "always", "off"},
   ignoredNames : ImpIgnoredNames, ignoreJSDoc : {<<>>, <<TRUE>>, <<FALSE>>}]

\* The specifier lists: kind and local name of each specifier, in source order.
ImpShapes ==
  {<<>>,
   <<<<"ImportDefaultSpecifier", "Foo">>>>,
   <<<<"ImportNamespaceSpecifier", "Foo">>>>,
   <<<<"ImportSpecifier", "Foo">>>>,
   <<<<"ImportSpecifier", "Foo">>, <<"ImportSpecifier", "baz">>>>,
   <<<<"ImportSpecifier", "_bar">>, <<"ImportSpecifier", "Foo">>>>,
   <<<<"ImportDefaultSpecifier", "Foo">>, <<"ImportSpecifier", "baz">>>>,
   <<<<"ImportDefaultSpecifier", "baz">>, <<"ImportNamespaceSpecifier", "Foo">>>>,
   <<<<"ImportDefaultSpecifier", "baz">>, <<"ImportSpecifier", "Foo">>,
     <<"ImportSpecifier", "_bar">>>>,
   <<<<"ImportSpecifier", "baz">>, <<"ImportSpecifier", "Foo">>,
     <<"ImportSpecifier", "_bar">>>>}

\* The white space the declaration is written with after {, after a comma and
\* before }.
ImpPads == {<<" ">>, <<"\n">>}

\* The reference counts the scope analysis may give the variables of a shape.
MaxReferences == 1

ImpReferences(shape) == [1..Len(shape) -> 0..MaxReferences]

\* What may follow the declaration in the file.
ImpTails ==
  {<<>>, <<"\n">>, <<" ", "x">>, <<"\n", "x">>, <<"\n", "\n", "x">>} \cup
  {<<"\n", comment>> : comment \in (BlockComments \ {"/*c*/"}) \cup {"// @see Foo"}}

\* The atoms of the specifiers and the range of each, from position i on.
RECURSIVE ImportLayout(_, _, _, _)
ImportLayout(shape, pad, i, acc) ==
  IF i > Len(shape) THEN acc
  ELSE LET named == shape[i][1] = "ImportSpecifier"
           opening == IF named /\ (i = 1 \/ shape[i - 1][1] # "ImportSpecifier")
                      THEN <<"{">> \o pad ELSE <<>>
           own == IF shape[i][1] = "ImportNamespaceSpecifier"
                  THEN <<"*", " ", "as", " ", shape[i][2]>>
                  ELSE <<shape[i][2]>>
           closing == IF i < Len(shape) THEN <<",">> \o pad
                      ELSE IF named THEN pad \o <<"}">> ELSE <<>>
           start == Len(acc.atoms) + Len(opening)
       IN ImportLayout(shape, pad, i + 1,
            [atoms |-> acc.atoms \o opening \o own \o closing,
             ranges |-> Append(acc.ranges, <<start, start + Len(own)>>)])

ImportAtoms(shape, pad) ==
  LET layout == ImportLayout(shape, pad, 1, [atoms |-> <<"import", " ">>, ranges |-> <<>>])
  IN layout.atoms \o (IF shape = <<>> THEN <<>> ELSE <<" ", "from", " ">>)
       \o <<"'m'", ";">>

\* The ImportDeclaration node the parser and the scope analysis give.
ImportNode(shape, pad, refs) ==
  LET layout == ImportLayout(shape, pad, 1, [atoms |-> <<"import", " ">>, ranges |-> <<>>])
  IN [nodeType |-> "ImportDeclaration",
      range |-> <<0, Len(ImportAtoms(shape, pad))>>,
      specifiers |-> [i \in 1..Len(shape) |->
                        [nodeType |-> shape[i][1], name |-> shape[i][2],
                         references |-> refs[i], range |-> layout.ranges[i]]]]

InitImp ==
  /\ NoGame /\ NoWorkflow /\ NoScripts
  /\ options \in ImpOptions
  /\ sourceCode = <<>>
  /\ visited = NoNode
  /\ reports = <<>>
  /\ pc = "idle"

ImportDeclaration ==
  /\ pc = "idle"
  /\ \E shape \in ImpShapes, pad \in ImpPads, tail \in ImpTails :
       \E refs \in ImpReferences(shape) :
         \E node \in {ImportNode(shape, pad, refs)},
            code \in {ImportAtoms(shape, pad) \o tail},
            realOption \in {ImpRealOption(options)} :
           /\ sourceCode' = code
           /\ visited' = node
           /\ reports' = checkUnusedImporter(code, node, realOption)
  /\ pc' = "linted"
  /\ UNCHANGED options
  /\ UNCHANGED <<gameVars, workflowVars, scriptVars>>

NextImp == ImportDeclaration \/ EngineFix

SpecImp == InitImp /\ [][NextImp]_vars

(***************************************************************************)
(* Properties of unused-import                                             *)
(***************************************************************************)

ImpLinted == pc # "idle" /\ visited.nodeType = "ImportDeclaration"

\* The configuration in force, with the documented defaults.
ImpAutoFix == ~(options.given /\ options.autoFix = "off")

ImpPatterns ==
  IF options.given /\ options.ignoredNames # <<>> THEN options.ignoredNames[1]
  ELSE <<"^_">>

ImpIgnoreJSDoc ==
  IF options.given /\ options.ignoreJSDoc # <<>> THEN options.ignoreJSDoc[1] ELSE TRUE

\* Which names each pattern of the configurations matches: a literal matches the
\* equal name, a regular expression the names it is found in.
PatternMatches(pattern, name) ==
  \/ pattern \in {"^_", "^_.*"} /\ name = "_bar"
  \/ pattern = "Foo" /\ name = "Foo"
  \/ pattern = "o$" /\ name = "Foo"
  \/ pattern = "b.z" /\ name = "baz"
  \/ pattern = "_bar" /\ name = "_bar"

\* The block comments of the files that hold a JSDoc reference to Foo.
JsDocReferences ==
  {"/** @type {Foo} */", "/** @param {Foo} p */", "/** @see Foo */", "/** {@link Foo} */",
   "/**\n * @see\tFoo\n */"}

ImpUnused(specifier) ==
  /\ \A i \in 1..Len(ImpPatterns) : ~PatternMatches(ImpPatterns[i], specifier.name)
  /\ specifier.references = 0
  /\ \/ ImpIgnoreJSDoc
     \/ ~(specifier.name = "Foo" /\ \E p \in 1..Len(sourceCode) : sourceCode[p] \in JsDocReferences)

ImpUnusedPositions ==
  {i \in 1..Len(visited.specifiers) : ImpUnused(visited.specifiers[i])}

\* The fix takes the whole statement away: it starts where the declaration
\* starts, reaches at least its end, and swallows and leaves only line breaks.
DeletesStatement(fix) ==
  /\ fix.range[1] = visited.range[1]
  /\ fix.range[2] >= visited.range[2]
  /\ \A p \in (visited.range[2] + 1)..fix.range[2] : IsSpace(sourceCode[p])
  /\ \A k \in 1..Len(fix.text) : fix.text[k] = "\n"

\* C5: for an import declaration with at least one specifier: every specifier
\* unused gives exactly one unusedAllImport on the declaration, whose fix deletes
\* the whole statement; only some unused gives exactly one unusedSingleImport per
\* unused specifier and none for the others; none unused, or no specifier at
\* all, gives no diagnostic.
C5_DiagnosticsPerDeclaration ==
  ImpLinted =>
    LET n == Len(visited.specifiers)
        unused == ImpUnusedPositions
    IN /\ (n = 0 \/ unused = {}) => reports = <<>>
       /\ (n > 0 /\ Cardinality(unused) = n) =>
            /\ Len(reports) = 1
            /\ reports[1].messageId = "unusedAllImport"
            /\ reports[1].node = Place(visited)
            /\ reports[1].fix.has <=> ImpAutoFix
            /\ (pc = "linted" /\ reports[1].fix.has) => DeletesStatement(reports[1].fix)
            /\ pc = "fixed" => ~Includes(sourceCode, "import")
       /\ (unused # {} /\ Cardinality(unused) < n) =>
            /\ Len(reports) = Cardinality(unused)
            /\ \A j \in 1..Len(reports) :
                 /\ reports[j].messageId = "unusedSingleImport"
                 /\ \E i \in unused : reports[j].node = Place(visited.specifiers[i])
            /\ \A i \in unused :
                 Cardinality({j \in 1..Len(reports) :
                                reports[j].node = Place(visited.specifiers[i])}) = 1

C5_Witness ==
  /\ ImpLinted /\ pc = "fixed"
  /\ Len(visited.specifiers) = 3
  /\ Cardinality(ImpUnusedPositions) = 3
  /\ Len(reports) = 1 /\ reports[1].messageId = "unusedAllImport"
  /\ sourceCode = <<"\n", "x">>

\* C6: a specifier is classified unused iff its local name matches no
\* ignoredNames pattern, its variable has no reference, and ignoreJSDoc is true
\* or no block comment holds a JSDoc reference to the name; a line comment
\* never counts.
C6_UsagePredicate ==
  ImpLinted =>
    \A i \in 1..Len(visited.specifiers) :
      (\E j \in 1..Len(reports) : Includes(reports[j].data, visited.specifiers[i].name))
        <=> ImpUnused(visited.specifiers[i])

C6_Witness ==
  /\ ImpLinted
  /\ options.given /\ options.ignoreJSDoc = <<FALSE>> /\ options.ignoredNames = << <<>> >>
  /\ Len(visited.specifiers) = 1
  /\ visited.specifiers[1].name = "Foo" /\ visited.specifiers[1].references = 0
  /\ Includes(sourceCode, "/** @param {Foo} p */")
  /\ reports = <<>>

(***************************************************************************)
(* unused-variable                                                         *)
(***************************************************************************)

VAR_DEFAULT_OPTION == [autoFix |-> "always", ignoredNames |-> <<"^_">>, ignoreFunction |-> TRUE]

FUNC_EXPRESSION_TYPES ==
  {"FunctionExpression", "ArrowFunctionExpression", "CallExpression", "AwaitExpression"}

\* On a node [nodeType, init], init being "none" for a declarator without one.
isNotFuncExpression(node) ==
  IF node.nodeType # "VariableDeclarator" THEN FALSE
  ELSE IF node.init = "none" THEN TRUE
  ELSE node.init \notin FUNC_EXPRESSION_TYPES

\* The words the parser gives the token type Keyword, Boolean or Null.
ReservedWords ==
  {"break", "case", "catch", "class", "const", "continue", "debugger", "default",
   "delete", "do", "else", "enum", "export", "extends", "false", "finally", "for",
   "function", "if", "import", "in", "instanceof", "new", "null", "return", "super",
   "switch", "this", "throw", "true", "try", "typeof", "var", "void", "while", "with",
   "implements", "interface", "let", "package", "private", "protected", "public",
   "static", "yield"}

\* token.type === Identifier
IsIdentifierToken(atom) ==
  /\ Len(atom) >= 1
  /\ SubSeq(atom, 1, 1) \in (WordChars \ DigitChars) \cup {"$"}
  /\ \A i \in 2..Len(atom) : SubSeq(atom, i, i) \in WordChars \cup {"$"}
  /\ atom \notin ReservedWords

\* formatRange: the range cut back to its indices not removed before, and the
\* removed indices after it: [range, removedIndex].
formatRange(range, removedIndex) ==
  LET free == {i \in range[1]..range[2] : i \notin removedIndex}
      first == IF free = {} THEN range[1] ELSE CHOOSE i \in free : \A j \in free : i <= j
      back == {i \in first..range[2] : i \notin removedIndex}
      last == IF back = {} THEN range[2] ELSE CHOOSE i \in back : \A j \in back : j <= i
  IN [range |-> <<first, last>>, removedIndex |-> removedIndex \cup (first..last)]

\* o.removeRange(range), the range being offsets of characters.
removeRange(code, range) ==
  LET places == 0..Len(code)
      first == CHOOSE k \in places :
                 /\ Off(code, k) <= range[1]
                 /\ \A l \in places : Off(code, l) <= range[1] => l <= k
      last == CHOOSE k \in places :
                /\ Off(code, k) >= range[2]
                /\ \A l \in places : Off(code, l) >= range[2] => k <= l
  IN [has |-> TRUE,
      trim |-> <<range[1] - Off(code, first), Off(code, last) - range[2]>>,
      range |-> <<first, last>>, text |-> <<>>]

\* removePunctuatorRange: [fix, removedIndex], the removed indices being
\* offsets of characters.
removePunctuatorRange(code, node, removedIndex) ==
  LET prevToken == getTokenBefore(code, node.range[1])
      nextToken == getTokenAfter(code, node.range[2], FALSE)
      isLast == nextToken = 0 \/ ~IsIdentifierToken(code[nextToken])
      cut == IF nextToken > 0 /\ code[nextToken] = ","
             THEN formatRange(<<Off(code, node.range[1]), Off(code, nextToken)>>,
                              removedIndex)
             ELSE formatRange(<<Off(code, prevToken - 1), Off(code, node.range[2])>>,
                              removedIndex)
  IN IF (nextToken > 0 /\ code[nextToken] = ",")
        \/ (isLast /\ prevToken > 0 /\ code[prevToken] = ",")
     THEN [fix |-> removeRange(code, cut.range), removedIndex |-> cut.removedIndex]
     ELSE [fix |-> RemoveFix(node.range[1], node.range[2], <<>>),
           removedIndex |-> removedIndex]

\* fixVariableDeclarator for the identifier of a variable: [fix, removedIndex].
fixVariableDeclarator(code, realOption, variable, removedIndex) ==
  IF ~realOption.autoFix THEN [fix |-> NoFix, removedIndex |-> removedIndex]
  ELSE IF isNotFuncExpression(variable.parent) \/ ~realOption.ignoreFunction
  THEN removePunctuatorRange(code, variable.parent, removedIndex)
  ELSE removePunctuatorRange(code, variable, removedIndex)

\* The fix of the report on the whole declaration.
fixVariableDeclaration(code, realOption, node) ==
  IF ~realOption.autoFix THEN NoFix
  ELSE LET afterNode == getTokenAfter(code, node.range[2], FALSE)
       IN IF afterNode > 0
          THEN IF LineOf(code, Off(code, afterNode - 1))
                    = LineOf(code, Off(code, node.range[2]))
               THEN RemoveFix(node.range[1], afterNode - 1, <<>>)
               ELSE RemoveFix(node.range[1], node.range[2], <<>>)
          ELSE IF \A p \in (node.range[2] + 1)..Len(code) : IsSpace(code[p])
               THEN RemoveFix(node.range[1], Len(code), <<>>)
               ELSE RemoveFix(node.range[1], node.range[2], <<>>)

\* The filter without the exemption of function-like initializers.
isUnusedVariable_NoExemption(variable, realOption) ==
  /\ ~isIgnoredName(variable.name, realOption.ignoredNames)
  /\ variable.references <= 1

\* The filter of the listener: the variable is kept as unused.
isUnusedVariable(variable, realOption) ==
  /\ ~isIgnoredName(variable.name, realOption.ignoredNames)
  /\ variable.references <= 1
  /\ ~(/\ variable.parent.nodeType = "VariableDeclarator"
       /\ ~isNotFuncExpression(variable.parent)
       /\ realOption.ignoreFunction)

\* The per-variable reports, with the removed indices threaded through them.
RECURSIVE reportEachVariable(_, _, _, _)
reportEachVariable(code, realOption, unusedVars, removedIndex) ==
  IF unusedVars = <<>> THEN <<>>
  ELSE LET variable == Head(unusedVars)
           fixed == fixVariableDeclarator(code, realOption, variable, removedIndex)
       IN <<Report("unusedSingleVariable", variable, fixed.fix, <<variable.name>>)>>
            \o reportEachVariable(code, realOption, Tail(unusedVars), fixed.removedIndex)

\* The listener that asks for plain declarators whatever ignoreFunction is.
checkVariableDeclaration_EveryPlain(code, node, realOption) ==
  LET unusedVars == SelectSeq(node.variables, LAMBDA v : isUnusedVariable(v, realOption))
  IN IF node.exported THEN <<>>
     ELSE IF Len(unusedVars) < 1 THEN <<>>
     ELSE IF /\ Len(unusedVars) = Len(node.variables)
             /\ \A i \in 1..Len(node.declarations) : isNotFuncExpression(node.declarations[i])
     THEN <<Report(IF Len(unusedVars) > 1 THEN "unusedAllVariable"
                   ELSE "unusedSingleVariable",
                   node, fixVariableDeclaration(code, realOption, node),
                   SpecifierNames(node.variables))>>
     ELSE reportEachVariable(code, realOption, unusedVars, {})

\* The VariableDeclaration listener.
checkVariableDeclaration(code, node, realOption) ==
  LET unusedVars == SelectSeq(node.variables, LAMBDA v : isUnusedVariable(v, realOption))
      isNormalOrNonFunctionDeclaration ==
        realOption.ignoreFunction =>
          \A i \in 1..Len(node.declarations) : isNotFuncExpression(node.declarations[i])
  IN IF node.exported THEN <<>>
     ELSE IF Len(unusedVars) < 1 THEN <<>>
     ELSE IF Len(unusedVars) = Len(node.variables) /\ isNormalOrNonFunctionDeclaration
     THEN <<Report(IF Len(unusedVars) > 1 THEN "unusedAllVariable"
                   ELSE "unusedSingleVariable",
                   node, fixVariableDeclaration(code, realOption, node),
                   SpecifierNames(node.variables))>>
     ELSE reportEachVariable(code, realOption, unusedVars, {})

VarRealOption(opts) ==
  LET autoFix == IF opts.given /\ opts.autoFix # U THEN opts.autoFix
                 ELSE VAR_DEFAULT_OPTION.autoFix
      names == IF opts.given /\ opts.ignoredNames # <<>> THEN opts.ignoredNames[1]
               ELSE VAR_DEFAULT_OPTION.ignoredNames
      func == IF opts.given /\ opts.ignoreFunction # <<>> THEN opts.ignoreFunction[1]
              ELSE VAR_DEFAULT_OPTION.ignoreFunction
  IN [autoFix |-> autoFix = "always",
      ignoredNames |-> [i \in 1..Len(names) |-> stringToRegExp(names[i])],
      ignoreFunction |-> func]

(* The configurations and the declarations the rule is run on. *)
VarOptions ==
  {[given |-> FALSE, autoFix |-> U, ignoredNames |-> <<>>, ignoreFunction |-> <<>>]}
  \cup [given : {TRUE}, autoFix : {"always", "off"}, ignoredNames : {<<>>},
        ignoreFunction : {<<>>, <<TRUE>>, <<FALSE>>}]
  \cup [given : {TRUE}, autoFix : {U}, ignoredNames : {<< <<>> >>, << <<"b">> >>},
        ignoreFunction : {<<TRUE>>, <<FALSE>>}]

\* The declarators: the type of the binding target and of the initializer.
VarDeclarators ==
  [id : {"Identifier"},
   init : {"none", "Literal", "ArrowFunctionExpression", "CallExpression"}]
  \cup {[id |-> "ObjectPattern", init |-> "CallExpression"],
        [id |-> "ArrayPattern", init |-> "Identifier"]}

\* The declarators that stand before the last one of a declaration.
VarLeading ==
  {[id |-> "Identifier", init |-> "Literal"],
   [id |-> "Identifier", init |-> "CallExpression"],
   [id |-> "ObjectPattern", init |-> "CallExpression"]}

MaxDeclarators == 2

VarShapes ==
  UNION {{shape \in [1..n -> VarDeclarators] :
            \A i \in 1..(n - 1) : shape[i] \in VarLeading} : n \in 1..MaxDeclarators}
  \cup {<<[id |-> "Identifier", init |-> i]>> : i \in {"FunctionExpression", "AwaitExpression"}}

VarNames == {<<"a", "b", "c", "d", "e", "g">>, <<"_", "b", "c", "d", "e", "g">>}

VarTails ==
  {<<>>, <<"\n">>, <<" ", "x">>, <<"\n", "x">>, <<" ", "//c">>, <<" ", "//c", "\n", "x">>}

InitAtoms(init) ==
  CASE init = "Literal" -> <<"1">>
    [] init = "Identifier" -> <<"o">>
    [] init = "ArrowFunctionExpression" -> <<"(", ")", "=>", "{", "}">>
    [] init = "FunctionExpression" -> <<"function", "(", ")", "{", "}">>
    [] init = "CallExpression" -> <<"f", "(", ")">>
    [] init = "AwaitExpression" -> <<"await", " ", "p">>
    [] OTHER -> <<>>

\* The text of the declarators and the nodes and variables they give, from
\* declarator i on; uses[k] counts the references to variable k after its
\* declaration.
RECURSIVE VarLayout(_, _, _, _, _)
VarLayout(shape, names, uses, i, acc) ==
  IF i > Len(shape) THEN acc
  ELSE LET d == shape[i]
           start == Len(acc.atoms)
           k == Len(acc.variables)
           idAtoms ==
             CASE d.id = "ObjectPattern" ->
                    <<"{", " ", names[k + 1], ",", " ", names[k + 2], " ", "}">>
               [] d.id = "ArrayPattern" -> <<"[", names[k + 1], ",", " ", names[k + 2], "]">>
               [] OTHER -> <<names[k + 1]>>
           atoms == idAtoms \o (IF d.init = "none" THEN <<>> ELSE <<" ", "=", " ">>)
                      \o InitAtoms(d.init)
           declarator == [nodeType |-> "VariableDeclarator", init |-> d.init,
                          range |-> <<start, start + Len(atoms)>>]
           written == IF d.init = "none" THEN 0 ELSE 1
           Variable(j, from, parent) ==
             [nodeType |-> "Identifier", name |-> names[k + j],
              references |-> written + uses[k + j],
              range |-> <<start + from, start + from + 1>>, parent |-> parent]
           Property(from) ==
             [nodeType |-> "Property", init |-> "none",
              range |-> <<start + from, start + from + 1>>]
           pattern == [nodeType |-> "ArrayPattern", init |-> "none",
                       range |-> <<start, start + Len(idAtoms)>>]
           variables ==
             CASE d.id = "ObjectPattern" ->
                    <<Variable(1, 2, Property(2)), Variable(2, 5, Property(5))>>
               [] d.id = "ArrayPattern" ->
                    <<Variable(1, 1, pattern), Variable(2, 4, pattern)>>
               [] OTHER -> <<Variable(1, 0, declarator)>>
       IN VarLayout(shape, names, uses, i + 1,
            [atoms |-> acc.atoms \o atoms
                         \o (IF i < Len(shape) THEN <<",", " ">> ELSE <<";">>),
             declarations |-> Append(acc.declarations, declarator),
             variables |-> acc.variables \o variables])

VariableCount(shape) ==
  Len(VarLayout(shape, <<"a", "b", "c", "d", "e", "g">>, [j \in 1..6 |-> 0], 1,
                [atoms |-> <<>>, declarations |-> <<>>, variables |-> <<>>]).variables)

InitVar ==
  /\ NoGame /\ NoWorkflow /\ NoScripts
  /\ options \in VarOptions
  /\ sourceCode = <<>>
  /\ visited = NoNode
  /\ reports = <<>>
  /\ pc = "idle"

VariableDeclaration ==
  /\ pc = "idle"
  /\ \E shape \in VarShapes, names \in VarNames, tail \in VarTails, exported \in BOOLEAN :
       \E uses \in [1..VariableCount(shape) -> 0..MaxReferences] :
         \E layout \in {VarLayout(shape, names, uses, 1,
                           [atoms |-> (IF exported THEN <<"export", " ">> ELSE <<>>)
                                        \o <<"let", " ">>,
                            declarations |-> <<>>, variables |-> <<>>])} :
           \E node \in {[nodeType |-> "VariableDeclaration", exported |-> exported,
                          range |-> <<IF exported THEN 2 ELSE 0, Len(layout.atoms)>>,
                          declarations |-> layout.declarations,
                          variables |-> layout.variables]} :
             /\ exported => tail = <<>> /\ names[1] = "a"
             /\ sourceCode' = layout.atoms \o tail
             /\ visited' = node
             /\ reports' = checkVariableDeclaration(layout.atoms \o tail, node,
                                                    VarRealOption(options))
  /\ pc' = "linted"
  /\ UNCHANGED options
  /\ UNCHANGED <<gameVars, workflowVars, scriptVars>>

NextVar == VariableDeclaration \/ EngineFix

SpecVar == InitVar /\ [][NextVar]_vars

(***************************************************************************)
(* Properties of unused-variable                                           *)
(***************************************************************************)

VarLinted == pc # "idle" /\ visited.nodeType = "VariableDeclaration"

VarAutoFix == ~(options.given /\ options.autoFix = "off")

VarIgnoreFunction ==
  IF options.given /\ options.ignoreFunction # <<>> THEN options.ignoreFunction[1]
  ELSE TRUE

\* The names the ignoredNames of the configuration match: ^_ by default.
VarIgnored(name) ==
  IF options.given /\ options.ignoredNames # <<>>
  THEN Includes(options.ignoredNames[1], name)
  ELSE name = "_"

\* At most one recorded reference and a name that is not ignored.
VarUnused(variable) == variable.references <= 1 /\ ~VarIgnored(variable.name)

FunctionLike ==
  {"FunctionExpression", "ArrowFunctionExpression", "CallExpression", "AwaitExpression"}

VarReported(variable) ==
  \E j \in 1..Len(reports) : Includes(reports[j].data, variable.name)

\* Every variable of the visited declaration is unused and the declaration may
\* go as a whole.
VarWholeStatement ==
  /\ ~visited.exported
  /\ \A k \in 1..Len(visited.variables) : VarUnused(visited.variables[k])
  /\ \/ ~VarIgnoreFunction
     \/ \A i \in 1..Len(visited.declarations) :
          visited.declarations[i].init \notin FunctionLike

\* C7: a declaration that is not exported, all of whose variables are unused,
\* with ignoreFunction false or no function-like initializer, gets exactly one
\* diagnostic, on the declaration: unusedAllVariable for more than one variable,
\* unusedSingleVariable for one; its fix removes the whole statement; an
\* exported declaration gets none.
C7_WholeStatementRemoval ==
  VarLinted =>
    /\ visited.exported => reports = <<>>
    /\ VarWholeStatement =>
         /\ Len(reports) = 1
         /\ reports[1].node = Place(visited)
         /\ reports[1].messageId =
              IF Len(visited.variables) > 1 THEN "unusedAllVariable"
              ELSE "unusedSingleVariable"
         /\ reports[1].fix.has <=> VarAutoFix
         /\ reports[1].fix.has =>
              /\ reports[1].fix.range[1] = visited.range[1]
              /\ reports[1].fix.range[2] >= visited.range[2]
              /\ reports[1].fix.text = <<>>
         /\ pc = "fixed" => ~Includes(sourceCode, "let")

C7_Witness ==
  /\ VarLinted /\ pc = "fixed" /\ VarWholeStatement
  /\ ~VarIgnoreFunction
  /\ Len(visited.variables) = 3
  /\ \E i \in 1..Len(visited.declarations) : visited.declarations[i].init \in FunctionLike
  /\ reports[1].messageId = "unusedAllVariable"
  /\ sourceCode = <<"x">>

\* The exemption: ignoreFunction, a binding outside every pattern, a
\* function-like initializer.
VarExempt(variable) ==
  /\ VarIgnoreFunction
  /\ variable.parent.nodeType = "VariableDeclarator"
  /\ variable.parent.init \in FunctionLike

VarExemptionRule ==
  ~visited.exported =>
    \A k \in 1..Len(visited.variables) :
      VarUnused(visited.variables[k]) =>
        (~VarReported(visited.variables[k]) <=> VarExempt(visited.variables[k]))

\* let { a, b } = f(); with neither a nor b referenced again, not exported.
VarDestructuredCall ==
  /\ ~visited.exported
  /\ Len(visited.declarations) = 1 /\ Len(visited.variables) = 2
  /\ visited.declarations[1].init = "CallExpression"
  /\ \A k \in 1..2 : /\ visited.variables[k].parent.nodeType = "Property"
                     /\ VarUnused(visited.variables[k])

VarTwoSingles ==
  /\ Len(reports) = 2
  /\ \A k \in 1..2 : /\ reports[k].messageId = "unusedSingleVariable"
                     /\ reports[k].node = Place(visited.variables[k])

\* let a = () => {}; with a not referenced again, not exported.
VarArrowOnly ==
  /\ ~visited.exported
  /\ Len(visited.declarations) = 1 /\ Len(visited.variables) = 1
  /\ visited.declarations[1].init = "ArrowFunctionExpression"
  /\ VarUnused(visited.variables[1])

VarArrowCase == VarArrowOnly => (reports = <<>> <=> VarIgnoreFunction)

\* C8 as stated: the exemption rule, and the destructured call reporting two
\* unusedSingleVariable whatever ignoreFunction is.
C8_AsStated ==
  VarLinted =>
    /\ VarExemptionRule
    /\ VarDestructuredCall => VarTwoSingles
    /\ VarArrowCase

\* C8: an unused variable is exempt iff ignoreFunction is true, its binding is
\* outside every destructuring pattern and its initializer is function-like; the
\* two unused bindings of a destructured call give two unusedSingleVariable
\* under ignoreFunction true and one unusedAllVariable on the declaration under
\* ignoreFunction false; an unused arrow function is reported only under
\* ignoreFunction false.
C8_FunctionExemption ==
  VarLinted =>
    /\ VarExemptionRule
    /\ (VarDestructuredCall /\ VarIgnoreFunction) => VarTwoSingles
    /\ (VarDestructuredCall /\ ~VarIgnoreFunction) =>
         /\ Len(reports) = 1
         /\ reports[1].messageId = "unusedAllVariable"
         /\ reports[1].node = Place(visited)
    /\ VarArrowCase

C8_Witness ==
  /\ VarLinted /\ VarDestructuredCall /\ ~VarIgnoreFunction
  /\ Len(reports) = 1 /\ reports[1].messageId = "unusedAllVariable"

(***************************************************************************)
(* sort-import                                                             *)
(***************************************************************************)

DEFAULT_GROUPS ==
  << <<"^node:">>, <<"^\\u0000">>, <<"^@?[a-zA-Z]">>, <<"^@/">>, <<"^\\.\\./">>,
     <<"^\\./">> >>

\* An option that is not set is <<>>, one that is set is <<value>>.
SORT_DEFAULT_OPTION ==
  [given |-> TRUE, autoFix |-> <<TRUE>>, order |-> <<"asc">>,
   groups |-> <<DEFAULT_GROUPS>>,
   clusters |-> << [i \in 1..Len(DEFAULT_GROUPS) |-> 0] >>]

normalizeGroupPatterns(groups, useProvided) ==
  IF useProvided /\ groups # <<>> /\ Len(groups[1]) > 0 THEN groups[1]
  ELSE DEFAULT_GROUPS

normalizeGroupClusters(clusters, length) ==
  [index \in 1..length |->
     IF clusters # <<>> /\ index <= Len(clusters[1]) /\ clusters[1][index] \in {1, 2}
     THEN clusters[1][index]
     ELSE 0]

compileGroups(groups) ==
  <<>> \o [g \in 1..Len(groups) |-> SelectSeq(groups[g], RegExpCompiles)]

\* Array.prototype.join from the element at `from` on (from = 1: the whole
\* array): the sequences one after the other with sep between.
RECURSIVE JoinFrom(_, _, _)
JoinFrom(seqs, sep, from) ==
  IF from > Len(seqs) THEN <<>>
  ELSE IF from = Len(seqs) THEN seqs[from]
  ELSE seqs[from] \o sep \o JoinFrom(seqs, sep, from + 1)

\* (The array is worked out once, as the one element of a set.)
Join(seqs, sep, from) ==
  CHOOSE joined \in {JoinFrom(array, sep, from) : array \in {<<>> \o seqs}} : TRUE

\* Array.prototype.sort, which is stable: an element comes after the elements
\* that compare below it and after the earlier elements that compare equal.
\* compare[j][i] is what the comparator returns for s[j] and s[i].
\* (<<>> \o f is the array of the function f, worked out once.)
Sort(s, compare) ==
  LET pos(results, i) == 1 + Cardinality({j \in 1..Len(s) :
                             \/ results[j][i] < 0
                             \/ results[j][i] = 0 /\ j < i})
      Placed(at) == <<>> \o [k \in 1..Len(s) |-> s[CHOOSE i \in 1..Len(s) : at[i] = k]]
      Compared(results) ==
        CHOOSE sorted \in
          {Placed(at) : at \in {<<>> \o [i \in 1..Len(s) |-> pos(results, i)]}} : TRUE
  IN CHOOSE sorted \in
       {Compared(results) :
          results \in {<<>> \o [j \in 1..Len(s) |-> <<>> \o compare[j]]}} : TRUE

\* String.prototype.localeCompare under the default collation, of two strings
\* given by their characters: U+0000 has no weight, punctuation sorts before
\* the letters, the letters compare without their case first and a lower case
\* letter before its capital after that.
localeCompare(a, b) ==
  LET weight(ch) ==
        CASE ch = NUL -> 0
          [] ch = "_" -> 1
          [] ch = "-" -> 2
          [] ch = "," -> 3
          [] ch = ":" -> 4
          [] ch = "." -> 5
          [] ch = "@" -> 6
          [] ch = "*" -> 7
          [] ch = "/" -> 8
          [] ch = "|" -> 9
          [] OTHER -> 10 + (CHOOSE k \in 1..Len(Letters) : Letters[k] = ch)
      Weighs(ch) == weight(ch) # 0
      x == SelectSeq(a, Weighs)
      y == SelectSeq(b, Weighs)
      primary(ch) == IF weight(ch) > 10 THEN 10 + ((weight(ch) - 9) \div 2) ELSE weight(ch)
      short == IF Len(x) < Len(y) THEN Len(x) ELSE Len(y)
      first == {k \in 1..short : primary(x[k]) # primary(y[k])}
      case == {k \in 1..short : weight(x[k]) # weight(y[k])}
      at(set) == CHOOSE k \in set : \A l \in set : k <= l
  IN IF first # {}
     THEN (IF primary(x[at(first)]) < primary(y[at(first)]) THEN -1 ELSE 1)
     ELSE IF Len(x) # Len(y) THEN (IF Len(x) < Len(y) THEN -1 ELSE 1)
     ELSE IF case # {}
     THEN (IF weight(x[at(case)]) < weight(y[at(case)]) THEN -1 ELSE 1)
     ELSE 0

\* sourceCode.getCommentsBefore: the comments between the token before the
\* place p and p, in the order of the file.
RECURSIVE getCommentsBefore(_, _)
getCommentsBefore(code, p) ==
  IF p = 0 THEN <<>>
  ELSE IF IsSpace(code[p]) THEN getCommentsBefore(code, p - 1)
  ELSE IF ~IsComment(code[p]) THEN <<>>
  ELSE Append(getCommentsBefore(code, p - 1),
              [type |-> IF IsLineComment(code[p]) THEN "Line" ELSE "Block",
               range |-> <<p - 1, p>>])

collectAttachedComments(node, code, boundary) ==
  LET comments == getCommentsBefore(code, node.range[1])
      currentStart(i) == IF i = Len(comments) THEN node.range[1]
                         ELSE comments[i + 1].range[1]
      stops == {i \in 1..Len(comments) :
                  \/ comments[i].range[1] < boundary
                  \/ \E q \in (comments[i].range[2] + 1)..currentStart(i) :
                       ~IsSpace(code[q])}
      from == IF stops = {} THEN 1
              ELSE 1 + CHOOSE i \in stops : \A j \in stops : j <= i
  IN SubSeq(comments, from, Len(comments))

hasDetachedLeadingLineComment(node, code, boundary) ==
  LET comments == getCommentsBefore(code, node.range[1])
  IN IF Len(comments) < 1 THEN FALSE
     ELSE LET lastComment == comments[Len(comments)]
          IN IF lastComment.range[1] < boundary
             THEN /\ lastComment.type = "Line"
                  /\ \A q \in (lastComment.range[2] + 1)..node.range[1] : IsSpace(code[q])
             ELSE FALSE

\* The key as its characters.
getSortKey(node) ==
  (IF Len(node.specifiers) < 1 THEN <<NUL>> ELSE <<>>) \o Chars(node.source.value)

getGroupIndex(key, groups) ==
  LET hits == {index \in 1..Len(groups) :
                 /\ Len(groups[index]) >= 1
                 /\ \E r \in 1..Len(groups[index]) : RegExpTest(groups[index][r], key)}
  IN IF hits = {} THEN Len(groups)
     ELSE (CHOOSE index \in hits : \A other \in hits : index <= other) - 1

getClusterValue(groupIndex, clusters) ==
  IF groupIndex + 1 <= Len(clusters) THEN clusters[groupIndex + 1] ELSE 0

\* compareEntries with the group order reversed as well under 'desc'.
compareEntries_DescGroups(a, b, order) ==
  IF a.groupIndex # b.groupIndex
  THEN (IF order = "asc" THEN a.groupIndex - b.groupIndex
        ELSE b.groupIndex - a.groupIndex)
  ELSE IF a.key = b.key THEN a.originalIndex - b.originalIndex
  ELSE IF order = "asc" THEN localeCompare(a.key, b.key)
  ELSE localeCompare(b.key, a.key)

compareEntries(a, b, order) ==
  IF a.groupIndex # b.groupIndex THEN a.groupIndex - b.groupIndex
  ELSE IF a.key = b.key THEN a.originalIndex - b.originalIndex
  ELSE IF order = "asc" THEN localeCompare(a.key, b.key)
  ELSE localeCompare(b.key, a.key)

collectEntries(nodes, code, realOption) ==
  <<>> \o [i \in 1..Len(nodes) |->
     LET node == nodes[i]
         previousBoundary == IF i = 1 THEN nodes[1].range[1] ELSE nodes[i - 1].range[2]
         attachedComments == collectAttachedComments(node, code, previousBoundary)
         start == IF attachedComments # <<>> THEN attachedComments[1].range[1]
                  ELSE node.range[1]
         key == getSortKey(node)
         groupIndex == getGroupIndex(key, realOption.groups)
     IN [node |-> node,
         text |-> SubSeq(code, start + 1, node.range[2]),
         key |-> key,
         groupIndex |-> groupIndex,
         clusterIndex |-> getClusterValue(groupIndex, realOption.clusters),
         originalIndex |-> i - 1,
         start |-> start,
         hasLeadingComment |->
           \/ \E c \in 1..Len(attachedComments) : attachedComments[c].type = "Line"
           \/ hasDetachedLeadingLineComment(node, code, previousBoundary)]]

\* getSeparatorBetween with the cluster settings applied between groups too.
getSeparatorBetween_AcrossGroups(prev, current, lineBreak) ==
  IF prev.hasLeadingComment THEN <<lineBreak>>
  ELSE Repeat(lineBreak, 1 + (IF prev.clusterIndex >= 1 THEN 1 ELSE 0)
                           + (IF current.clusterIndex >= 2 THEN 1 ELSE 0))

getSeparatorBetween(prev, current, lineBreak) ==
  IF prev.groupIndex # current.groupIndex THEN <<lineBreak, lineBreak>>
  ELSE IF prev.hasLeadingComment THEN <<lineBreak>>
  ELSE Repeat(lineBreak, 1 + (IF prev.clusterIndex >= 1 THEN 1 ELSE 0)
                           + (IF current.clusterIndex >= 2 THEN 1 ELSE 0))

buildOutput(entries, lineBreak) ==
  Join([i \in 1..Len(entries) |->
          (IF i = 1 THEN <<>>
           ELSE getSeparatorBetween(entries[i - 1], entries[i], lineBreak))
          \o entries[i].text], <<>>, 1)

\* canMergeImport without the test for a namespace specifier.
canMergeImport_NoNamespaceTest(node) ==
  IF Len(node.specifiers) = 0 THEN FALSE
  ELSE TRUE

canMergeImport(node) ==
  IF Len(node.specifiers) = 0 THEN FALSE
  ELSE IF \E s \in 1..Len(node.specifiers) :
            node.specifiers[s].nodeType = "ImportNamespaceSpecifier"
  THEN FALSE
  ELSE TRUE

\* The Map keeps, in the order of insertion, the first item of each local name.
deduplicateSpecifiers(specifiers) ==
  LET unique == {i \in 1..Len(specifiers) :
                   \A j \in 1..(i - 1) :
                     specifiers[j].spec.local # specifiers[i].spec.local}
  IN <<>> \o [k \in 1..Cardinality(unique) |->
               specifiers[CHOOSE i \in unique :
                            Cardinality({j \in unique : j < i}) = k - 1]]

collectSpecifiers(nodes) ==
  LET Of(nodeType) ==
        Join([n \in 1..Len(nodes) |->
                LET isDeclarationType == nodes[n].importKind = "type"
                    IsOfType(spec) == spec.nodeType = nodeType
                    specs == SelectSeq(nodes[n].specifiers, IsOfType)
                IN [s \in 1..Len(specs) |->
                      [spec |-> specs[s],
                       isType |-> IF nodeType = "ImportDefaultSpecifier"
                                  THEN isDeclarationType
                                  ELSE specs[s].importKind = "type" \/ isDeclarationType]]],
             <<>>, 1)
  IN [defaultSpecifiers |-> Of("ImportDefaultSpecifier"),
      namedSpecifiers |-> Of("ImportSpecifier")]

shouldUseTypePrefix(uniqueDefaultSpecifiers, uniqueNamedSpecifiers) ==
  LET allDefaultAreType ==
        \A d \in 1..Len(uniqueDefaultSpecifiers) : uniqueDefaultSpecifiers[d].isType
      defaultIsType ==
        Len(uniqueDefaultSpecifiers) > 0 /\ uniqueDefaultSpecifiers[1].isType
      allNamedAreType ==
        \A n \in 1..Len(uniqueNamedSpecifiers) : uniqueNamedSpecifiers[n].isType
      isAllType ==
        /\ Len(uniqueDefaultSpecifiers) = 0 \/ allDefaultAreType
        /\ Len(uniqueNamedSpecifiers) = 0 \/ allNamedAreType
  IN isAllType \/ (defaultIsType /\ Len(uniqueDefaultSpecifiers) > 0)

\* One named specifier as it is written between the braces.
SpecifierText(importedName, localName, inlineType) ==
  (IF inlineType THEN <<"type", " ">> ELSE <<>>)
    \o (IF importedName # localName THEN <<importedName, " ", "as", " ", localName>>
        ELSE <<localName>>)

\* buildNamedSpecifiersText with the value specifiers before the type-only ones.
buildNamedSpecifiersText_ValuesFirst(uniqueNamedSpecifiers, useTypePrefix) ==
  LET IsTypeSpec(entry) == entry.isType
      IsValueSpec(entry) == ~entry.isType
      ByLocalName(specs) ==
        [a \in 1..Len(specs) |-> [b \in 1..Len(specs) |->
           localeCompare(Chars(specs[a].spec.local), Chars(specs[b].spec.local))]]
      types == SelectSeq(uniqueNamedSpecifiers, IsTypeSpec)
      values == SelectSeq(uniqueNamedSpecifiers, IsValueSpec)
      typeSpecs == Sort(types, ByLocalName(types))
      valueSpecs == Sort(values, ByLocalName(values))
      allSpecs == valueSpecs \o typeSpecs
  IN Join([s \in 1..Len(allSpecs) |->
             SpecifierText(allSpecs[s].spec.imported, allSpecs[s].spec.local,
                           allSpecs[s].isType /\ ~useTypePrefix)],
          <<",", " ">>, 1)

buildNamedSpecifiersText(uniqueNamedSpecifiers, useTypePrefix) ==
  LET IsTypeSpec(entry) == entry.isType
      IsValueSpec(entry) == ~entry.isType
      ByLocalName(specs) ==
        [a \in 1..Len(specs) |-> [b \in 1..Len(specs) |->
           localeCompare(Chars(specs[a].spec.local), Chars(specs[b].spec.local))]]
      types == SelectSeq(uniqueNamedSpecifiers, IsTypeSpec)
      values == SelectSeq(uniqueNamedSpecifiers, IsValueSpec)
      typeSpecs == Sort(types, ByLocalName(types))
      valueSpecs == Sort(values, ByLocalName(values))
      allSpecs == typeSpecs \o valueSpecs
  IN Join([s \in 1..Len(allSpecs) |->
             SpecifierText(allSpecs[s].spec.imported, allSpecs[s].spec.local,
                           allSpecs[s].isType /\ ~useTypePrefix)],
          <<",", " ">>, 1)

buildMergedImportText(firstEntry, uniqueDefaultSpecifiers, uniqueNamedSpecifiers, code) ==
  LET sourceValue == firstEntry.node.source.value
      sourceText == code[firstEntry.node.source.range[2]]
      quote == IF Len(sourceText) > 0 /\ SubSeq(sourceText, 1, 1) = "\"" THEN "\"" ELSE "'"
      useTypePrefix == shouldUseTypePrefix(uniqueDefaultSpecifiers, uniqueNamedSpecifiers)
  IN (IF useTypePrefix THEN <<"import", " ", "type", " ">> ELSE <<"import", " ">>)
       \o (IF Len(uniqueDefaultSpecifiers) > 0
           THEN <<uniqueDefaultSpecifiers[1].spec.local>>
                  \o (IF Len(uniqueNamedSpecifiers) > 0 THEN <<",", " ">> ELSE <<>>)
           ELSE <<>>)
       \o (IF Len(uniqueNamedSpecifiers) > 0
           THEN <<"{", " ">>
                  \o buildNamedSpecifiersText(uniqueNamedSpecifiers, useTypePrefix)
                  \o <<" ", "}">>
           ELSE <<>>)
       \o <<" ", "from", " ", quote \o sourceValue \o quote, ";">>

mergeEntriesBySource(entries, code) ==
  LET Mergeable(entry) == canMergeImport(entry.node) /\ ~entry.hasLeadingComment
      Merged(groupEntries) ==
        LET firstEntry == groupEntries[1]
            specifiers == collectSpecifiers([g \in 1..Len(groupEntries) |->
                                               groupEntries[g].node])
            attachedComments ==
              collectAttachedComments(firstEntry.node, code, firstEntry.start)
            mergedStart == IF attachedComments # <<>> THEN attachedComments[1].range[1]
                           ELSE firstEntry.node.range[1]
        IN [node |-> firstEntry.node,
            text |-> SubSeq(code, mergedStart + 1, firstEntry.node.range[1])
                       \o buildMergedImportText(
                            firstEntry,
                            deduplicateSpecifiers(specifiers.defaultSpecifiers),
                            deduplicateSpecifiers(specifiers.namedSpecifiers),
                            code),
            key |-> firstEntry.key,
            groupIndex |-> firstEntry.groupIndex,
            clusterIndex |-> firstEntry.clusterIndex,
            originalIndex |-> firstEntry.originalIndex,
            start |-> mergedStart,
            hasLeadingComment |-> firstEntry.hasLeadingComment]
  IN Join([i \in 1..Len(entries) |->
             IF ~Mergeable(entries[i]) THEN <<entries[i]>>
             ELSE LET SameSource(entry) ==
                        Mergeable(entry) /\ getSortKey(entry.node) = getSortKey(entries[i].node)
                      groupEntries == SelectSeq(entries, SameSource)
                  IN IF groupEntries[1].originalIndex # entries[i].originalIndex THEN <<>>
                     ELSE IF Len(groupEntries) <= 1 THEN groupEntries
                     ELSE << Merged(groupEntries) >>],
          <<>>, 1)

\* sortEntries with no import kept in its place.
sortEntries_NoAnchors(entries, order) ==
  Sort(entries, [a \in 1..Len(entries) |-> [b \in 1..Len(entries) |->
                   compareEntries(entries[a], entries[b], order)]])

sortEntries(entries, order) ==
  LET ByEntry(slice) ==
        [a \in 1..Len(slice) |-> [b \in 1..Len(slice) |->
           compareEntries(slice[a], slice[b], order)]]
  IN <<>> \o [k \in 1..Len(entries) |->
        IF entries[k].hasLeadingComment THEN entries[k]
        ELSE LET before == {c \in 1..k : entries[c].hasLeadingComment}
                 after == {c \in k..Len(entries) : entries[c].hasLeadingComment}
                 cursor == IF before = {} THEN 1
                           ELSE 1 + CHOOSE c \in before : \A d \in before : d <= c
                 end == IF after = {} THEN Len(entries)
                        ELSE (CHOOSE c \in after : \A d \in after : c <= d) - 1
                 slice == SubSeq(entries, cursor, end)
             IN Sort(slice, ByEntry(slice))[k - cursor + 1]]

\* issued is the sequence of the reports that sortImportInProgram makes.
sortImportInProgram(program, code, realOption, issued) ==
  LET IsImport(node) == node.nodeType = "ImportDeclaration"
      importNodes == SelectSeq(program.body, IsImport)
  IN IF Len(importNodes) < 2 THEN issued = <<>>
     ELSE
       \E collected \in {collectEntries(importNodes, code, realOption)} :
       \E entries \in {mergeEntriesBySource(collected, code)} :
       \E sortedEntries \in {sortEntries(entries, realOption.order)} :
       \E expectedText \in {buildOutput(sortedEntries, realOption.lineBreak)} :
         LET blockStart == collected[1].start
             blockEnd == collected[Len(collected)].node.range[2]
             actualText == SubSeq(code, blockStart + 1, blockEnd)
             differs == {i \in 1..Len(entries) : entries[i].node # sortedEntries[i].node}
             diffEntry == IF differs = {} THEN entries[1]
                          ELSE entries[CHOOSE i \in differs : \A j \in differs : i <= j]
         IN issued =
              IF actualText = expectedText THEN <<>>
              ELSE << Report("importsNotSorted", diffEntry.node,
                             IF realOption.autoFix
                             THEN [has |-> TRUE, trim |-> <<0, 0>>, range |-> <<blockStart, blockEnd>>,
                                   text |-> expectedText]
                             ELSE NoFix,
                             [order |-> realOption.order]) >>

SortRealOption(opts, code) ==
  LET option == IF opts.given THEN opts ELSE SORT_DEFAULT_OPTION
      hasCustomGroups == opts.given /\ opts.groups # <<>> /\ Len(opts.groups[1]) > 0
      normalizedGroups == normalizeGroupPatterns(option.groups, hasCustomGroups)
  IN [autoFix |-> IF option.autoFix # <<>> THEN option.autoFix[1] ELSE SORT_DEFAULT_OPTION.autoFix[1],
      order |-> IF option.order = <<"desc">> THEN "desc" ELSE "asc",
      groups |-> compileGroups(normalizedGroups),
      clusters |-> normalizeGroupClusters(option.clusters, Len(normalizedGroups)),
      lineBreak |-> IF IncludesPair(TextOf(code), "\r\n") THEN "\r\n" ELSE "\n"]

\* The configurations of the rule: none, and objects that set the order, the
\* fixing or the groups.
\* The groups that the react preset sets for .jsx and .tsx files and the vue
\* preset for .vue files.
ReactSortImportGroups ==
  << <<"^node:">>, <<"\\u0000">>, <<"^react", "^@?[a-zA-Z]">>, <<"^@/">>, <<"^\\.\\./">>,
     <<"^\\./">> >>

VueSortImportGroups ==
  << <<"^node:">>, <<"\\u0000">>, <<"^vue", "^@?[a-zA-Z]">>, <<"^@/">>, <<"^\\.\\./">>,
     <<"^\\./">> >>

SortOptions ==
  LET Given(autoFix, order, groups, clusters) ==
        [given |-> TRUE, autoFix |-> autoFix, order |-> order, groups |-> groups,
         clusters |-> clusters]
  IN {[given |-> FALSE, autoFix |-> <<>>, order |-> <<>>, groups |-> <<>>,
       clusters |-> <<>>],
      Given(<<>>, <<"desc">>, <<>>, <<>>),
      Given(<<FALSE>>, <<"asc">>, <<>>, <<>>),
      Given(<<TRUE>>, <<"desc">>, << << <<"^b">>, <<"^a">> >> >>, <<>>),
      Given(<<>>, <<>>, << << <<"[">>, <<"^\\./", "^b">>, <<"a">> >> >>, <<>>),
      Given(<<TRUE>>, <<>>, <<>>, <<>>),
      Given(<<>>, <<>>, << << <<"^a">>, <<"^b">> >> >>, << <<2, 3>> >>),
      Given(<<>>, <<>>, << << <<"^a">>, <<"^b">> >> >>, << <<1>> >>),
      Given(<<>>, <<>>, <<ReactSortImportGroups>>, <<>>),
      Given(<<>>, <<>>, <<VueSortImportGroups>>, <<>>)}

\* Imports of packages: the frameworks and two others.
SortPackageImports ==
  {[leading |-> <<>>, importKind |-> "value",
    specifiers |-> <<[nodeType |-> "ImportDefaultSpecifier", imported |-> "default",
                      local |-> package[2], importKind |-> "value"]>>,
    source |-> package[1]] :
     package \in {<<"react", "React">>, <<"vue", "Vue">>, <<"axios", "axios">>,
                  <<"zod", "z">>}}

\* The import statements of the modelled files: what stands before the
\* statement on its own lines, its specifiers and its module specifier.
SortImports ==
  LET Specifier(nodeType, importedName, localName) ==
        [nodeType |-> nodeType, imported |-> importedName, local |-> localName,
         importKind |-> "value"]
      Statement(leading, specifiers, source) ==
        [leading |-> leading, importKind |-> "value", specifiers |-> specifiers,
         source |-> source]
  IN {Statement(<<>>, <<Specifier("ImportDefaultSpecifier", "default", "D"),
                        Specifier("ImportSpecifier", "x", "x")>>, "a"),
      Statement(<<>>, <<Specifier("ImportSpecifier", "y", "y"),
                        Specifier("ImportSpecifier", "w", "x")>>, "a"),
      Statement(<<>>, <<Specifier("ImportNamespaceSpecifier", "*", "N")>>, "a"),
      Statement(<<>>, <<>>, "a"),
      Statement(<<>>, <<Specifier("ImportDefaultSpecifier", "default", "D")>>, "b"),
      Statement(<<"//c", "\n">>, <<Specifier("ImportSpecifier", "z", "z")>>, "a"),
      Statement(<<"//c", "\n", "\n">>,
                <<Specifier("ImportDefaultSpecifier", "default", "D")>>, "b")}

\* Import statements with type-only parts, all of module 'a': a type-only
\* declaration, a type-only specifier beside a value, a type-only default, a
\* value and a default.
SortTypedImports ==
  LET Specifier(nodeType, name, importKind) ==
        [nodeType |-> nodeType,
         imported |-> IF nodeType = "ImportSpecifier" THEN name ELSE "default",
         local |-> name, importKind |-> importKind]
      Statement(importKind, specifiers) ==
        [leading |-> <<>>, importKind |-> importKind, specifiers |-> specifiers,
         source |-> "a"]
  IN {Statement("type", <<Specifier("ImportSpecifier", "U", "value")>>),
      Statement("value", <<Specifier("ImportSpecifier", "v", "value"),
                           Specifier("ImportSpecifier", "T", "type")>>),
      Statement("type", <<Specifier("ImportDefaultSpecifier", "E", "value")>>),
      Statement("value", <<Specifier("ImportSpecifier", "s", "value")>>),
      Statement("value", <<Specifier("ImportDefaultSpecifier", "D", "value")>>)}

\* The statements of the files that are linted under a configuration.
SortImportsUnder(opts) ==
  IF opts.given /\ opts.autoFix = <<TRUE>> /\ opts.groups = <<>>
  THEN SortTypedImports
  ELSE IF opts.groups \in {<<ReactSortImportGroups>>, <<VueSortImportGroups>>}
  THEN SortPackageImports
  ELSE IF opts.clusters # <<>>
  THEN {st \in SortImports : Len(st.specifiers) < 2 /\ Len(st.leading) < 3}
  ELSE SortImports

MaxImports == 3

\* The text of one import statement.
ImportText(statement) ==
  LET Is(nodeType) == {s \in 1..Len(statement.specifiers) :
                         statement.specifiers[s].nodeType = nodeType}
      OfType(nodeType) ==
        LET IsOfType(spec) == spec.nodeType = nodeType
        IN SelectSeq(statement.specifiers, IsOfType)
      defaults == OfType("ImportDefaultSpecifier")
      namespaces == OfType("ImportNamespaceSpecifier")
      named == OfType("ImportSpecifier")
  IN <<"import", " ">>
       \o (IF statement.importKind = "type" THEN <<"type", " ">> ELSE <<>>)
       \o Join((IF defaults # <<>> THEN << <<defaults[1].local>> >> ELSE <<>>)
                 \o (IF namespaces # <<>>
                     THEN << <<"*", " ", "as", " ", namespaces[1].local>> >> ELSE <<>>)
                 \o (IF named # <<>>
                     THEN << <<"{", " ">>
                               \o Join([s \in 1..Len(named) |->
                                          SpecifierText(named[s].imported, named[s].local,
                                                        named[s].importKind = "type")],
                                       <<",", " ">>, 1)
                               \o <<" ", "}">> >>
                     ELSE <<>>),
               <<",", " ">>, 1)
       \o (IF statement.specifiers # <<>> THEN <<" ", "from", " ">> ELSE <<>>)
       \o <<"'" \o statement.source \o "'", ";">>

\* The file of the statements and the ImportDeclaration nodes of its parse.
RECURSIVE SortLayout(_, _, _, _)
SortLayout(statements, gaps, k, acc) ==
  IF k > Len(statements) THEN acc
  ELSE LET before == acc.atoms
                       \o (IF k = 1 THEN <<>> ELSE Repeat("\n", gaps[k - 1]))
                       \o statements[k].leading
           text == ImportText(statements[k])
           end == Len(before) + Len(text)
           node == [nodeType |-> "ImportDeclaration",
                    importKind |-> statements[k].importKind,
                    specifiers |-> statements[k].specifiers,
                    source |-> [value |-> statements[k].source,
                                range |-> <<end - 2, end - 1>>],
                    range |-> <<Len(before), end>>]
       IN SortLayout(statements, gaps, k + 1,
                     [atoms |-> before \o text, body |-> Append(acc.body, node)])

InitSort ==
  /\ NoGame /\ NoWorkflow /\ NoScripts
  /\ options \in SortOptions
  /\ sourceCode = <<>>
  /\ visited = NoNode
  /\ reports = <<>>
  /\ pc = "idle"

\* 'Program:exit', on a file of up to MaxImports import statements with one
\* line break or two between a statement and what stands before the next.
ProgramExit ==
  /\ pc = "idle"
  /\ \E count \in 1..MaxImports :
       \E statements \in [1..count -> SortImportsUnder(options)], gaps \in [1..(count - 1) -> {1, 2}] :
         \E layout \in {SortLayout(statements, gaps, 1, [atoms |-> <<>>, body |-> <<>>])} :
           \E program \in {[nodeType |-> "Program", body |-> layout.body,
                            range |-> <<layout.body[1].range[1], Len(layout.atoms)>>]},
              realOption \in {SortRealOption(options, layout.atoms)} :
             /\ sourceCode' = layout.atoms
             /\ visited' = program
             /\ sortImportInProgram(program, layout.atoms, realOption, reports')
  /\ pc' = "linted"
  /\ UNCHANGED options
  /\ UNCHANGED <<gameVars, workflowVars, scriptVars>>

NextSort == ProgramExit \/ EngineFix

SpecSort == InitSort /\ [][NextSort]_vars

(***************************************************************************)
(* Properties of sort-import                                               *)
(***************************************************************************)

SortLinted == pc = "linted" /\ visited.nodeType = "Program"

SortFixed == pc = "fixed" /\ visited.nodeType = "Program"

\* The import statements of a text, read off the text alone: a statement runs
\* to its ";" and takes the comment above it along.  breaks counts the line
\* breaks between the statement before and this one (or its comment).
SortStatements(text) ==
  LET ends == {p \in 1..Len(text) : text[p] = ";"}
      End(k) == IF k = 0 THEN 0
                ELSE CHOOSE p \in ends : Cardinality({q \in ends : q < p}) = k - 1
  IN <<>> \o [k \in 1..Cardinality(ends) |->
        LET atoms == SubSeq(text, End(k - 1) + 1, End(k))
            first == CHOOSE p \in 1..Len(atoms) :
                       ~IsSpace(atoms[p]) /\ \A q \in 1..(p - 1) : IsSpace(atoms[q])
            keyword == CHOOSE p \in 1..Len(atoms) : atoms[p] = "import"
            typeOnly == atoms[keyword + 2] = "type" /\ atoms[keyword + 4] # "from"
            clause == IF typeOnly THEN keyword + 4 ELSE keyword + 2
            open == {p \in 1..Len(atoms) : atoms[p] = "{"}
            locals == {q \in 1..(Len(atoms) - 2) :
                         /\ \E o \in open : o < q
                         /\ ~IsSpace(atoms[q]) /\ atoms[q] \notin {"{", ",", "as"}
                         /\ \/ atoms[q + 1] = ","
                            \/ atoms[q + 1] = " " /\ atoms[q + 2] = "}"}
            Written(p) == IF atoms[p - 2] = "as" THEN p - 4 ELSE p
        IN [breaks |-> first - 1,
            text |-> SubSeq(atoms, first, Len(atoms)),
            module |-> atoms[Len(atoms) - 1],
            sideEffect |-> ~Includes(atoms, "from"),
            namespace |-> Includes(atoms, "*"),
            lineComment |-> \E p \in 1..Len(atoms) : IsLineComment(atoms[p]),
            detached |-> \E p \in 1..(Len(atoms) - 2) :
                           /\ IsLineComment(atoms[p])
                           /\ atoms[p + 1] = "\n"
                           /\ atoms[p + 2] = "\n",
            typeOnly |-> typeOnly,
            default |-> IF Includes(atoms, "from") /\ atoms[clause] \notin {"{", "*"}
                        THEN <<atoms[clause]>> ELSE <<>>,
            named |-> {<<atoms[Written(p)], atoms[p]>> : p \in locals},
            list |-> [n \in 1..Cardinality(locals) |->
                        LET p == CHOOSE q \in locals :
                                   Cardinality({r \in locals : r < q}) = n - 1
                        IN [local |-> atoms[p],
                            typed |-> atoms[Written(p) - 2] = "type"]]]]

\* The file the fix of the visit leaves; the file itself when nothing is reported.
SortAfter == IF reports = <<>> THEN sourceCode ELSE ApplyFix(sourceCode, reports[1].fix)

SortSettled == SortLinted /\ (reports = <<>> \/ reports[1].fix.has)

SortCustomGroups ==
  IF options.given /\ options.groups # <<>> THEN options.groups[1] ELSE <<>>

SortDescending == options.given /\ options.order = <<"desc">>

\* The group of a statement under each configuration, written out by hand: the
\* key of a side-effect import starts with U+0000, the key of any other import
\* is its module specifier.
ExpectedGroup(st) ==
  CASE SortCustomGroups = << <<"^b">>, <<"^a">> >> ->
         (IF ~st.sideEffect /\ st.module = "'b'" THEN 0
          ELSE IF ~st.sideEffect /\ st.module = "'a'" THEN 1
          ELSE 2)
    [] SortCustomGroups = << <<"[">>, <<"^\\./", "^b">>, <<"a">> >> ->
         (IF ~st.sideEffect /\ st.module = "'b'" THEN 1 ELSE 2)
    [] SortCustomGroups = << <<"^a">>, <<"^b">> >> ->
         (IF ~st.sideEffect /\ st.module = "'a'" THEN 0
          ELSE IF ~st.sideEffect /\ st.module = "'b'" THEN 1
          ELSE 2)
    [] OTHER ->
         (IF st.sideEffect THEN 1 ELSE 2)

\* The place of a key among the keys of the files in ascending order: the
\* collation gives the U+0000 of a side-effect import no weight.
ExpectedKeyRank(st) ==
  CASE st.module = "'a'" -> 1
    [] st.module = "'axios'" -> 2
    [] st.module = "'b'" -> 3
    [] st.module = "'react'" -> 4
    [] st.module = "'vue'" -> 5
    [] st.module = "'zod'" -> 6

SortedPair(p, q) ==
  \/ ExpectedGroup(p) < ExpectedGroup(q)
  \/ /\ ExpectedGroup(p) = ExpectedGroup(q)
     /\ IF SortDescending THEN ExpectedKeyRank(p) >= ExpectedKeyRank(q)
        ELSE ExpectedKeyRank(p) <= ExpectedKeyRank(q)

\* An import under a line comment, whether the comment stands right above it
\* or a blank line separates the two.
SortPinned(st) == st.lineComment

\* An import under a detached line comment: a blank line separates the two.
SortDetached(st) == st.detached

\* The runs of a text are what stands between two anchors, before the first
\* and after the last; Anchor tells which statements are anchors.  Every two
\* neighbours of a run are in order.
SortOrdered(text, Anchor(_)) ==
  LET st == SortStatements(text)
  IN \A k \in 1..(Len(st) - 1) :
       (~Anchor(st[k]) /\ ~Anchor(st[k + 1])) => SortedPair(st[k], st[k + 1])

\* Statements of one run with the same key that the fix took over as they were
\* stand in the order they had.
SortStable(Anchor(_)) ==
  LET before == SortStatements(sourceCode)
      after == SortStatements(SortAfter)
  IN \A k \in 1..Len(after), l \in 1..Len(after) :
       (/\ k < l
        /\ \A m \in k..l : ~Anchor(after[m])
        /\ after[k].module = after[l].module
        /\ after[k].sideEffect = after[l].sideEffect
        /\ after[k].text # after[l].text
        /\ \E i \in 1..Len(before) : before[i].text = after[k].text
        /\ \E j \in 1..Len(before) : before[j].text = after[l].text)
       => \E i \in 1..Len(before), j \in 1..Len(before) :
            i < j /\ before[i].text = after[k].text /\ before[j].text = after[l].text

\* The cluster of a statement under each configuration, written out by hand:
\* under [2, 3] the first group has 2, under [1] it has 1, all else is 0.
ExpectedCluster(st) ==
  IF options.given /\ options.clusters # <<>> /\ ExpectedGroup(st) = 0
  THEN options.clusters[1][1]
  ELSE 0

\* The line breaks between two neighbours by the cluster settings: one, one
\* more after a cluster of 1 or 2, one more before a cluster of 2.
ExpectedClusterBreaks(p, q) ==
  1 + (IF ExpectedCluster(p) \in {1, 2} THEN 1 ELSE 0)
    + (IF ExpectedCluster(q) = 2 THEN 1 ELSE 0)

\* The line breaks the rule puts between two neighbours.
ExpectedBreaks(p, q) ==
  IF ExpectedGroup(p) # ExpectedGroup(q) THEN 2
  ELSE IF p.lineComment THEN 1
  ELSE ExpectedClusterBreaks(p, q)

\* The file is in order and its statements are as many line breaks apart as
\* the rule puts between them.
SortInOrder(Anchor(_)) ==
  LET st == SortStatements(sourceCode)
  IN /\ SortOrdered(sourceCode, Anchor)
     /\ \A k \in 2..Len(st) : st[k].breaks = ExpectedBreaks(st[k - 1], st[k])

SortCombinable(st) == ~st.sideEffect /\ ~st.namespace /\ ~st.lineComment

SortNothingToMerge ==
  LET st == SortStatements(sourceCode)
  IN \A i \in 1..Len(st), j \in 1..Len(st) :
       (i # j /\ SortCombinable(st[i]) /\ SortCombinable(st[j]))
       => st[i].module # st[j].module

SortOrderAfterFix(Anchor(_)) ==
  /\ SortFixed => SortOrdered(sourceCode, Anchor)
  /\ (SortLinted /\ reports # <<>> /\ reports[1].fix.has) => SortStable(Anchor)

\* C9 as stated, an anchor being an import under a detached line comment:
\* after the fix the statements of every run between anchors stand by
\* ascending group, then by key in the configured order, equal keys in their
\* original order, 'desc' turning the key order only; and every file that is
\* in this order with the required spacing gets no diagnostic.
C9_AsStated ==
  /\ SortOrderAfterFix(SortDetached)
  /\ (SortLinted /\ SortInOrder(SortDetached)) => reports = <<>>

\* C9, amended: every import under a line comment, right above it or a blank
\* line apart, stays where it is, and after the fix the statements of every
\* run between two such imports stand by ascending group (the first declared
\* group with a matching pattern, else the number of groups), then by key in
\* the configured order, equal keys in their original order, 'desc' turning
\* the key order only; a file that is in this order with the required
\* spacing, and in which no two imports are to be merged, gets no diagnostic.
C9_Ordering ==
  /\ SortOrderAfterFix(SortPinned)
  /\ (SortLinted /\ SortInOrder(SortPinned) /\ SortNothingToMerge) => reports = <<>>

\* A fixed file under 'desc' with a step between two groups and, inside a
\* group, two keys in descending order.
C9_Witness ==
  /\ SortFixed
  /\ SortDescending
  /\ LET st == SortStatements(sourceCode)
     IN /\ \E k \in 1..(Len(st) - 1) :
             /\ ~st[k].lineComment /\ ~st[k + 1].lineComment
             /\ ExpectedGroup(st[k]) < ExpectedGroup(st[k + 1])
        /\ \E l \in 1..(Len(st) - 1) :
             /\ ~st[l].lineComment /\ ~st[l + 1].lineComment
             /\ ExpectedGroup(st[l]) = ExpectedGroup(st[l + 1])
             /\ ExpectedKeyRank(st[l]) > ExpectedKeyRank(st[l + 1])

\* The imports that may be combined if only a detached line comment keeps an
\* import from it.
SortDetachedOnly(st) == ~st.sideEffect /\ ~st.namespace /\ ~SortDetached(st)

\* What the merge leaves of the file, for a given reading of which statements
\* may be combined: the others stay as they are; the combinable statements of
\* one module become one statement, in the run and among the namespace imports
\* of the module where the first of them stood, with the default specifier
\* (of which nothing is said when the statements declare defaults of different
\* local names) and, per local name, the first named specifier.
SortMerged(Combinable(_)) ==
  LET before == SortStatements(sourceCode)
      after == SortStatements(SortAfter)
      kept == {i \in 1..Len(before) : ~Combinable(before[i])}
      Contributors(module) ==
        {i \in 1..Len(before) : before[i].module = module /\ Combinable(before[i])}
      modules == {before[i].module : i \in 1..Len(before)}
      Lowest(set) == CHOOSE i \in set : \A j \in set : i <= j
      AnchorsBefore(st, k) == Cardinality({m \in 1..(k - 1) : st[m].lineComment})
      NamespacesBefore(st, k) ==
        Cardinality({m \in 1..(k - 1) : st[m].namespace /\ st[m].module = st[k].module})
  IN /\ Len(after) = Cardinality(kept)
                       + Cardinality({module \in modules : Contributors(module) # {}})
     /\ \A i \in kept :
          Cardinality({k \in 1..Len(after) :
                         after[k].text = before[i].text /\ ~Combinable(after[k])})
            = Cardinality({j \in kept : before[j].text = before[i].text})
     /\ \A module \in modules :
          LET from == Contributors(module)
              defaults == UNION {{before[i].default[d] : d \in 1..Len(before[i].default)}
                                 : i \in from}
          IN from # {} =>
               \E k \in 1..Len(after) :
                 /\ after[k].module = module
                 /\ Combinable(after[k])
                 /\ Cardinality(defaults) <= 1 =>
                      {after[k].default[d] : d \in 1..Len(after[k].default)} = defaults
                 /\ after[k].named =
                      {pair \in UNION {before[i].named : i \in from} :
                         \E i \in from :
                           /\ pair \in before[i].named
                           /\ \A j \in from : \A other \in before[j].named :
                                (j < i) => other[2] # pair[2]}
                 /\ AnchorsBefore(after, k) = AnchorsBefore(before, Lowest(from))
                 /\ NamespacesBefore(after, k) = NamespacesBefore(before, Lowest(from))

\* C10 as stated: the imports of one module are combined exactly when none is a
\* namespace import, none is side-effect-only and none carries a detached
\* leading line comment, that is a line comment a blank line separates from it.
C10_AsStated == SortSettled => SortMerged(SortDetachedOnly)

\* C10, amended: the imports of one module that are neither namespace imports
\* nor side-effect-only nor under a line comment, right above them or a blank
\* line apart, are combined into one statement and no other import is; the
\* merged statement stands where the first contributing import stood and holds
\* the default specifier and all named specifiers, one per local name, the
\* first occurrence winning.
C10_MergeEligibility == SortSettled => SortMerged(SortCombinable)

\* Two imports of 'a' merge across a third that a line comment right above it
\* keeps apart; the alias `w as x` of the first wins over `x` of the last.
C10_Witness ==
  /\ SortSettled
  /\ reports # <<>>
  /\ LET before == SortStatements(sourceCode)
         after == SortStatements(SortAfter)
     IN /\ Len(before) = 3
        /\ <<"w", "x">> \in before[1].named
        /\ before[2].lineComment /\ ~before[2].detached /\ before[2].module = "'a'"
        /\ before[3].default = <<"D">> /\ before[3].module = "'a'"
        /\ Len(after) = 2
        /\ after[1].default = <<"D">>
        /\ after[1].named = {<<"w", "x">>, <<"y", "y">>}

\* The place of a binding name of the files in alphabetical order.
ExpectedNameRank(name) ==
  CASE name = "D" -> 1
    [] name = "E" -> 2
    [] name = "N" -> 3
    [] name = "s" -> 4
    [] name = "T" -> 5
    [] name = "U" -> 6
    [] name = "v" -> 7
    [] name = "x" -> 8
    [] name = "y" -> 9
    [] name = "z" -> 10

\* The named specifiers of every merged import that holds a value and a
\* type-only named specifier and no type-only default: the statement is no
\* `import type`, a specifier is written with `type ` exactly when the first
\* import that brought its name had it type-only, each of the two kinds stands
\* in alphabetical order, and the kind named first stands before the other.
SortMixedRendering(typesFirst) ==
  LET before == SortStatements(sourceCode)
      after == SortStatements(SortAfter)
      modules == {before[i].module : i \in 1..Len(before)}
  IN \A module \in modules :
       LET from == {i \in 1..Len(before) :
                      before[i].module = module /\ SortCombinable(before[i])}
           Brings(i, name) == \E n \in 1..Len(before[i].list) : before[i].list[n].local = name
           names == {name \in {"D", "E", "N", "s", "T", "U", "v", "x", "y", "z"} :
                       \E i \in from : Brings(i, name)}
           First(name) == CHOOSE i \in from :
                            Brings(i, name) /\ \A j \in from : Brings(j, name) => i <= j
           TypeOnly(name) ==
             \/ before[First(name)].typeOnly
             \/ \E n \in 1..Len(before[First(name)].list) :
                  /\ before[First(name)].list[n].local = name
                  /\ before[First(name)].list[n].typed
       IN (/\ Cardinality(from) >= 2
           /\ \E name \in names : TypeOnly(name)
           /\ \E name \in names : ~TypeOnly(name)
           /\ \A i \in from : ~(before[i].typeOnly /\ before[i].default # <<>>))
          => \E k \in 1..Len(after) :
               /\ after[k].module = module /\ SortCombinable(after[k])
               /\ ~after[k].typeOnly
               /\ {after[k].list[n].local : n \in 1..Len(after[k].list)} = names
               /\ \A n \in 1..Len(after[k].list) :
                    after[k].list[n].typed <=> TypeOnly(after[k].list[n].local)
               /\ \A m \in 1..Len(after[k].list), n \in 1..Len(after[k].list) :
                    m < n =>
                      IF after[k].list[m].typed = after[k].list[n].typed
                      THEN ExpectedNameRank(after[k].list[m].local)
                             < ExpectedNameRank(after[k].list[n].local)
                      ELSE after[k].list[m].typed = typesFirst

\* C11 as stated: a merged import with value and type-only named specifiers and
\* no type-only default is a value import whose type-only named specifiers carry
\* `type ` each and stand after the other named specifiers, each of the two
\* lists in alphabetical order of the local names.
C11_AsStated == SortSettled => SortMixedRendering(FALSE)

\* C11, amended: a merged import with value and type-only named specifiers and
\* no type-only default is a value import whose type-only named specifiers carry
\* `type ` each and stand before the other named specifiers, each of the two
\* lists in alphabetical order of the local names.
C11_MixedRendering == SortSettled => SortMixedRendering(TRUE)

\* import { v, type T }, import type { U } and import { s }, all from 'a',
\* become import { type T, type U, s, v } from 'a'.
C11_Witness ==
  /\ SortSettled
  /\ reports # <<>>
  /\ LET before == SortStatements(sourceCode)
         after == SortStatements(SortAfter)
     IN /\ Len(before) = 3
        /\ before[1].list = << [local |-> "v", typed |-> FALSE],
                               [local |-> "T", typed |-> TRUE] >>
        /\ before[2].typeOnly
        /\ Len(after) = 1
        /\ after[1].text =
             <<"import", " ", "{", " ", "type", " ", "T", ",", " ", "type", " ", "U",
               ",", " ", "s", ",", " ", "v", " ", "}", " ", "from", " ", "'a'", ";">>

\* What the statements k of a text with k in a set bring in: the module with
\* each local name, with "*" for a namespace import and with "" for an import
\* that has no specifier.
SortBindings(st, set) ==
  UNION {{<<st[k].module, st[k].default[d]>> : d \in 1..Len(st[k].default)}
           \cup {<<st[k].module, pair[2]>> : pair \in st[k].named}
           \cup (IF st[k].namespace THEN {<<st[k].module, "*">>} ELSE {})
           \cup (IF st[k].sideEffect THEN {<<st[k].module, "">>} ELSE {})
         : k \in set}

\* The n-th anchor of a text.
SortAnchor(st, n, Anchor(_)) ==
  CHOOSE k \in 1..Len(st) :
    Anchor(st[k]) /\ Cardinality({m \in 1..(k - 1) : Anchor(st[m])}) = n - 1

\* The imports below statement k that are merged into an import above it.
SortMergedAcross(st, k) ==
  {j \in (k + 1)..Len(st) :
     /\ SortCombinable(st[j])
     /\ \E i \in 1..(k - 1) : SortCombinable(st[i]) /\ st[i].module = st[j].module}

\* The anchors, each taken with what the fix leaves of it: the fixed file has
\* as many, the statement is kept as it is, and what is imported above it and
\* below it is what was imported above it and below it; with merging, but for
\* the imports below it that are merged into an import above it.
SortAnchorsKept(merging, Anchor(_)) ==
  LET before == SortStatements(sourceCode)
      after == SortStatements(SortAfter)
      count == Cardinality({k \in 1..Len(before) : Anchor(before[k])})
  IN /\ Cardinality({k \in 1..Len(after) : Anchor(after[k])}) = count
     /\ \A n \in 1..count :
          LET p == SortAnchor(before, n, Anchor)
              q == SortAnchor(after, n, Anchor)
              moved == IF merging THEN SortMergedAcross(before, p) ELSE {}
          IN /\ after[q].text = before[p].text
             /\ SortBindings(after, 1..(q - 1))
                  = SortBindings(before, 1..(p - 1) \cup moved)
             /\ SortBindings(after, (q + 1)..Len(after))
                  = SortBindings(before, ((p + 1)..Len(before)) \ moved)

\* C12 as stated: an import under a detached leading line comment keeps its
\* place in the fixed file, the imports above it and the imports below it are
\* each sorted on their own, and no import and no imported binding passes from
\* one side of it to the other.
C12_AsStated ==
  SortSettled =>
    (SortOrdered(SortAfter, SortDetached) /\ SortAnchorsKept(FALSE, SortDetached))

\* C12, amended: an import under a leading line comment, right above it or a
\* blank line apart, keeps its place in the fixed file, and the imports between
\* two such imports, above the first and below the last are each sorted on
\* their own; an import below it that is merged joins the first import of its
\* module, which may stand above it, and no other import and no other imported
\* binding passes from one side of it to the other.
C12_AnchorsSplitRuns ==
  SortSettled =>
    (SortOrdered(SortAfter, SortPinned) /\ SortAnchorsKept(TRUE, SortPinned))

\* import { y, w as x } from 'a', then import D from 'b' under a detached
\* comment, then import D, { x } from 'a': the last joins the first.
C12_Witness ==
  /\ SortSettled
  /\ reports # <<>>
  /\ LET before == SortStatements(sourceCode)
         after == SortStatements(SortAfter)
     IN /\ Len(before) = 3
        /\ before[2].detached
        /\ SortMergedAcross(before, 2) = {3}
        /\ before[3].default = <<"D">>
        /\ Len(after) = 2
        /\ after[1].default = <<"D">>
        /\ after[2].text = before[2].text

\* C13 as stated: in the fixed file two neighbours of different groups are one
\* blank line apart whatever the clusters are, and two neighbours of one group
\* are 1 + (1 if the cluster of the first is 1 or 2) + (1 if the cluster of the
\* second is 2) line breaks apart; any other cluster value, a missing entry and
\* the trailing group count as 0.
C13_AsStated ==
  SortSettled =>
    LET after == SortStatements(SortAfter)
    IN \A k \in 2..Len(after) :
         after[k].breaks =
           IF ExpectedGroup(after[k - 1]) # ExpectedGroup(after[k]) THEN 2
           ELSE ExpectedClusterBreaks(after[k - 1], after[k])

\* C13, amended: in the fixed file two neighbours of different groups are one
\* blank line apart whatever the clusters are; two neighbours of one group are
\* one line break apart when the first stands under a line comment, and
\* otherwise 1 + (1 if the cluster of the first is 1 or 2) + (1 if the cluster
\* of the second is 2) line breaks apart; any other cluster value, a missing
\* entry and the trailing group count as 0.
C13_Spacing ==
  SortSettled =>
    LET after == SortStatements(SortAfter)
    IN \A k \in 2..Len(after) :
         after[k].breaks = ExpectedBreaks(after[k - 1], after[k])

\* Under clusters [2, 3] the fix puts three line breaks between two imports of
\* the first group and two before an import of the second group, whose 3
\* counts as 0.
C13_Witness ==
  /\ SortSettled
  /\ reports # <<>>
  /\ options.clusters = << <<2, 3>> >>
  /\ LET after == SortStatements(SortAfter)
     IN /\ Len(after) = 3
        /\ ExpectedGroup(after[1]) = 0 /\ ~after[1].lineComment
        /\ ExpectedGroup(after[2]) = 0 /\ after[2].breaks = 3
        /\ ExpectedGroup(after[3]) = 1 /\ after[3].breaks = 2

(***************************************************************************)
(* sort-export                                                             *)
(***************************************************************************)

EXP_DEFAULT_OPTION == [autoFix |-> "always", order |-> "asc"]

\* A node's source is <<>> when the statement has no `from`, else <<literal>>.
canMerge(a, b) ==
  IF a.nodeType # "ExportNamedDeclaration" \/ b.nodeType # "ExportNamedDeclaration"
  THEN FALSE
  ELSE IF a.source = <<>> \/ b.source = <<>> THEN FALSE
  ELSE IF a.source[1].value # b.source[1].value THEN FALSE
  ELSE TRUE

getMergeKey(node) ==
  IF node.nodeType # "ExportNamedDeclaration" \/ node.source = <<>>
  THEN <<node.nodeType, "-", IF node.source = <<>> THEN "" ELSE node.source[1].value,
         "-", node.exportKind>>
  ELSE <<"named-", node.source[1].value>>

getEntryStart(node, code, boundary) ==
  LET Start(comments) ==
        LET currentStart(i) == IF i = Len(comments) THEN node.range[1]
                               ELSE comments[i + 1].range[1]
            stops == {i \in 1..Len(comments) :
                        \/ comments[i].range[1] < boundary
                        \/ \E q \in (comments[i].range[2] + 1)..currentStart(i) :
                             ~IsSpace(code[q])}
        IN IF stops = {} THEN 1
           ELSE 1 + CHOOSE i \in stops : \A j \in stops : j <= i
      From(comments, from) ==
        IF from > Len(comments) THEN node.range[1] ELSE comments[from].range[1]
      Of(comments) == CHOOSE start \in {From(comments, from) : from \in {Start(comments)}} : TRUE
  IN CHOOSE start \in
       {Of(comments) : comments \in {getCommentsBefore(code, node.range[1])}} : TRUE

\* The key as its characters.
getExportKey(node) ==
  LET moduleName == IF node.source = <<>> THEN <<>> ELSE Chars(node.source[1].value)
      kindPrefix == IF node.exportKind = "type" THEN <<"t", "y", "p", "e", ":">>
                    ELSE <<"v", "a", "l", "u", "e", ":">>
      formPrefix == IF node.nodeType = "ExportAllDeclaration" THEN <<"a", "l", "l", ":">>
                    ELSE <<"n", "a", "m", "e", "d", ":">>
  IN IF node.nodeType = "ExportAllDeclaration"
     THEN kindPrefix \o formPrefix \o moduleName \o <<"|", "*">>
            \o (IF node.exported # <<>> THEN <<":">> \o Chars(node.exported[1]) ELSE <<>>)
     ELSE kindPrefix \o formPrefix \o moduleName \o <<"|">>
            \o Join([s \in 1..Len(node.specifiers) |-> Chars(node.specifiers[s].exported)],
                    <<",">>, 1)

\* The specifiers of the type-only declarations (isType) or of the others among
\* the nodes, the first of each exported name, sorted by that name.
sortedSpecifiers(nodes, isType, order) ==
  LET First(all) ==
        {i \in 1..Len(all) : \A j \in 1..(i - 1) : all[j].name # all[i].name}
      Pushed(all, first) ==
        [k \in 1..Cardinality(first) |->
           all[CHOOSE i \in first : Cardinality({j \in first : j < i}) = k - 1]]
      Sorted(pushed) ==
        Sort(pushed, [a \in 1..Len(pushed) |-> [b \in 1..Len(pushed) |->
                        localeCompare(Chars(pushed[IF order = "asc" THEN a ELSE b].name),
                                      Chars(pushed[IF order = "asc" THEN b ELSE a].name))]])
  IN CHOOSE sorted \in
       {Sorted(<<>> \o Pushed(all, First(all))) :
          all \in {Join([n \in 1..Len(nodes) |->
                           IF (nodes[n].exportKind = "type") = isType
                           THEN [s \in 1..Len(nodes[n].specifiers) |->
                                   [specifier |-> nodes[n].specifiers[s],
                                    name |-> nodes[n].specifiers[s].exported]]
                           ELSE <<>>], <<>>, 1)}} : TRUE

\* The characters from..to of text that are not in gone, as one string.
RECURSIVE KeptChars(_, _, _, _)
KeptChars(text, gone, from, to) ==
  IF from > to THEN ""
  ELSE (IF from \in gone THEN "" ELSE SubSeq(text, from, from))
         \o KeptChars(text, gone, from + 1, to)

\* specifiersText.replace(/\btype /gu, ''): every "type " of the joined text
\* that has no word character before it goes, inside a name too; what is left
\* of each atom stays an atom.
typeOnlyText(specifiersText) ==
  LET Matched(text) ==
        {q \in 1..Len(text) :
           \E at \in 1..q :
             /\ q <= at + 4
             /\ at + 4 <= Len(text)
             /\ SubSeq(text, at, at + 4) = "type "
             /\ (at = 1 \/ SubSeq(text, at - 1, at - 1) \notin WordChars)}
  IN CHOOSE replaced \in
       {SelectSeq([p \in 1..Len(specifiersText) |->
                     KeptChars(text, Matched(text), Off(specifiersText, p - 1) + 1,
                               Off(specifiersText, p))],
                  LAMBDA atom : atom # "") :
          text \in {TextOf(specifiersText)}} : TRUE

buildMergedExportText(nodes, code, order) ==
  LET firstNode == nodes[1]
      formatSpecifier(spec) ==
        IF spec.local = spec.exported THEN <<spec.exported>>
        ELSE <<spec.local, " ", "as", " ", spec.exported>>
      Text(valueSpecifiers, typeSpecifiers, specifiersText) ==
        IF Len(valueSpecifiers) = 0 /\ Len(typeSpecifiers) > 0
        THEN <<"export", " ", "type", " ", "{", " ">>
               \o typeOnlyText(specifiersText)
               \o <<" ", "}", " ", "from", " ", code[firstNode.source[1].range[2]], ";">>
        ELSE <<"export", " ", "{", " ">> \o specifiersText
               \o <<" ", "}", " ", "from", " ", code[firstNode.source[1].range[2]], ";">>
      Merged(valueSpecifiers, typeSpecifiers) ==
        CHOOSE text \in
          {Text(valueSpecifiers, typeSpecifiers, specifiersText) :
             specifiersText \in
               {Join([v \in 1..Len(valueSpecifiers) |->
                        formatSpecifier(valueSpecifiers[v].specifier)]
                       \o [t \in 1..Len(typeSpecifiers) |->
                             <<"type", " ">> \o formatSpecifier(typeSpecifiers[t].specifier)],
                     <<",", " ">>, 1)}} : TRUE
  IN IF Len(nodes) = 0 THEN <<>>
     ELSE IF Len(nodes) = 1 \/ firstNode.nodeType # "ExportNamedDeclaration"
             \/ firstNode.source = <<>>
     THEN SubSeq(code, firstNode.range[1] + 1, firstNode.range[2])
     ELSE CHOOSE text \in
            {Merged(valueSpecifiers, typeSpecifiers) :
               valueSpecifiers \in {sortedSpecifiers(nodes, FALSE, order)},
               typeSpecifiers \in {sortedSpecifiers(nodes, TRUE, order)}} : TRUE

buildExportOutput(entries, lineBreak) ==
  Join([i \in 1..Len(entries) |-> entries[i].text], <<lineBreak>>, 1)

compareExportEntries(a, b, order) ==
  IF a.key = b.key THEN a.originalIndex - b.originalIndex
  ELSE localeCompare(IF order = "asc" THEN a.key ELSE b.key,
                     IF order = "asc" THEN b.key ELSE a.key)

collectExportEntries(nodes, boundary, code) ==
  <<>> \o [index \in 1..Len(nodes) |->
     CHOOSE entry \in
       {[node |-> nodes[index],
         key |-> getExportKey(nodes[index]),
         start |-> start,
         originalIndex |-> index - 1,
         text |-> SubSeq(code, start + 1, nodes[index].range[2])] :
          start \in {getEntryStart(nodes[index], code,
                                   IF index = 1 THEN boundary
                                   ELSE nodes[index - 1].range[2])}} : TRUE]

\* The node, or <<>> for null.
getSortableExport(node) ==
  IF node.nodeType = "ExportAllDeclaration"
  THEN (IF node.source # <<>> THEN <<node>> ELSE <<>>)
  ELSE IF node.nodeType = "ExportNamedDeclaration"
  THEN (IF node.declaration THEN <<>>
        ELSE IF node.source = <<>> THEN <<>>
        ELSE <<node>>)
  ELSE <<>>

\* The groups of the Map stand in the order their first entries came in.
mergeEntries(entries, code, option) ==
  LET SameKey(a, b) == getMergeKey(a.node) = getMergeKey(b.node)
      Merged(group, nodes, valueNames, typeNames) ==
        [node |-> group[1].node,
         key |-> (IF Len(valueNames) > 0 THEN <<"v", "a", "l", "u", "e", ":">>
                  ELSE <<"t", "y", "p", "e", ":">>)
                   \o <<"n", "a", "m", "e", "d", ":">>
                   \o Chars(group[1].node.source[1].value) \o <<"|">>
                   \o Join([n \in 1..Len(valueNames) |-> Chars(valueNames[n].name)]
                             \o [n \in 1..Len(typeNames) |-> Chars(typeNames[n].name)],
                           <<",">>, 1),
         start |-> group[1].start,
         originalIndex |-> group[1].originalIndex,
         text |-> SubSeq(code, group[1].start + 1, group[1].node.range[1])
                    \o buildMergedExportText(nodes, code, option.order)]
      MergedOf(group, nodes) ==
        CHOOSE entry \in
          {Merged(group, nodes, valueNames, typeNames) :
             valueNames \in {sortedSpecifiers(nodes, FALSE, option.order)},
             typeNames \in {sortedSpecifiers(nodes, TRUE, option.order)}} : TRUE
      Result(i, group) ==
        IF group[1].originalIndex # entries[i].originalIndex THEN <<>>
        ELSE IF Len(group) = 1 THEN group
        ELSE IF /\ \A g \in 1..Len(group) : canMerge(group[1].node, group[g].node)
                /\ group[1].node.nodeType = "ExportNamedDeclaration"
        THEN << CHOOSE entry \in
                  {MergedOf(group, nodes) :
                     nodes \in {<<>> \o [g \in 1..Len(group) |-> group[g].node]}} : TRUE >>
        ELSE group
  IN Join([i \in 1..Len(entries) |->
             CHOOSE result \in
               {Result(i, group) :
                  group \in {<<>> \o [k \in 1..Cardinality({j \in 1..Len(entries) : SameKey(entries[j], entries[i])}) |->
                               entries[CHOOSE j \in 1..Len(entries) :
                                  /\ SameKey(entries[j], entries[i])
                                  /\ Cardinality({h \in 1..(j - 1) : SameKey(entries[h], entries[i])}) = k - 1]]}} : TRUE],
          <<>>, 1)

\* The reports of one block.  (A CHOOSE from a set of one element works the
\* entries out once.)
sortExportBlock(nodes, boundary, code, option) ==
  LET Issue(entries, mergedEntries, sortedEntries) ==
        LET hasMerging == Len(mergedEntries) # Len(entries)
            needsReordering ==
              \E index \in 1..Len(mergedEntries) :
                \/ index > Len(sortedEntries)
                \/ mergedEntries[index].key # sortedEntries[index].key
                \/ mergedEntries[index].text # sortedEntries[index].text
        IN IF ~(hasMerging \/ needsReordering) THEN <<>>
           ELSE << Report("exportsNotSorted", entries[1].node,
                          IF option.autoFix
                          THEN [has |-> TRUE, trim |-> <<0, 0>>,
                                range |-> <<entries[1].start,
                                            entries[Len(entries)].node.range[2]>>,
                                text |-> buildExportOutput(sortedEntries, option.lineBreak)]
                          ELSE NoFix,
                          [order |-> option.order]) >>
      Sorted(entries, mergedEntries) ==
        CHOOSE issued \in
          {Issue(entries, mergedEntries, sortedEntries) :
             sortedEntries \in
               {Sort(mergedEntries,
                     [a \in 1..Len(mergedEntries) |-> [b \in 1..Len(mergedEntries) |->
                        compareExportEntries(mergedEntries[a], mergedEntries[b],
                                             option.order)]])}} : TRUE
      Merged(entries) ==
        IF Len(entries) < 2 THEN <<>>
        ELSE CHOOSE issued \in
               {Sorted(entries, mergedEntries) :
                  mergedEntries \in {mergeEntries(entries, code, option)}} : TRUE
  IN CHOOSE issued \in
       {Merged(entries) : entries \in {collectExportEntries(nodes, boundary, code)}} : TRUE

\* A block runs from a sortable statement that follows none to the last
\* sortable statement in a row; it is flushed when it has more than one.
sortExportsInProgram(program, code, option) ==
  LET statements == program.body
      sortable(i) == getSortableExport(statements[i]) # <<>>
      last(i) == CHOOSE j \in i..Len(statements) :
                   /\ \A k \in i..j : sortable(k)
                   /\ j = Len(statements) \/ ~sortable(j + 1)
  IN Join([i \in 1..Len(statements) |->
             IF sortable(i) /\ (i = 1 \/ ~sortable(i - 1)) /\ last(i) > i
             THEN sortExportBlock(SubSeq(statements, i, last(i)),
                                  IF i = 1 THEN program.range[1]
                                  ELSE statements[i - 1].range[2],
                                  code, option)
             ELSE <<>>],
          <<>>, 1)

ExpRealOption(opts, code) ==
  LET option == IF opts.given THEN opts ELSE [given |-> TRUE, autoFix |-> <<EXP_DEFAULT_OPTION.autoFix>>, order |-> <<EXP_DEFAULT_OPTION.order>>]
  IN [autoFix |-> (IF option.autoFix # <<>> THEN option.autoFix[1] ELSE "always") = "always",
      order |-> IF option.order = <<"desc">> THEN "desc" ELSE "asc",
      lineBreak |-> IF IncludesPair(TextOf(code), "\r\n") THEN "\r\n" ELSE "\n"]

\* The configurations of the rule: none, and objects that set the order or the
\* fixing.
ExpOptions ==
  {[given |-> FALSE, autoFix |-> <<>>, order |-> <<>>],
   [given |-> TRUE, autoFix |-> <<>>, order |-> <<"desc">>],
   [given |-> TRUE, autoFix |-> <<"off">>, order |-> <<"asc">>]}

\* The statements of the modelled files: what stands before the statement on
\* its own line (a comment, or nothing on an empty line), and the statement.
\* kind is named for export { } from, all for export * from, local for
\* export { } and other for a call.
ExpStatements ==
  LET Specifier(localName, exportedName, exportKind) ==
        [local |-> localName, exported |-> exportedName, exportKind |-> exportKind]
      Statement(leading, kind, exportKind, specifiers, exported, source) ==
        [leading |-> leading, kind |-> kind, exportKind |-> exportKind,
         specifiers |-> specifiers, exported |-> exported, source |-> source]
  IN {Statement(<<>>, "named", "value", <<Specifier("x", "x", "value")>>, <<>>, "a"),
      Statement(<<>>, "named", "value", <<Specifier("w", "x", "value"),
                                          Specifier("y", "y", "value")>>, <<>>, "a"),
      Statement(<<>>, "named", "type", <<Specifier("T", "T", "value")>>, <<>>, "a"),
      Statement(<<>>, "named", "value", <<Specifier("v", "v", "value"),
                                          Specifier("U", "U", "type")>>, <<>>, "a"),
      Statement(<<>>, "all", "value", <<>>, <<>>, "a"),
      Statement(<<>>, "all", "value", <<>>, <<"N">>, "a"),
      Statement(<<>>, "named", "value", <<Specifier("z", "z", "value")>>, <<>>, "b"),
      Statement(<<"//c", "\n">>, "all", "value", <<>>, <<>>, "b"),
      Statement(<<"\n">>, "all", "value", <<>>, <<"N">>, "b"),
      Statement(<<>>, "local", "value", <<Specifier("q", "q", "value")>>, <<>>, ""),
      Statement(<<>>, "other", "value", <<>>, <<>>, "")}

\* What may follow the statements: nothing, or `export const k = 1;` and a
\* second block whose exports of 'b' and 'a' are out of ascending order.
ExpTails ==
  LET Named(name, source) ==
        [leading |-> <<>>, kind |-> "named", exportKind |-> "value",
         specifiers |-> <<[local |-> name, exported |-> name, exportKind |-> "value"]>>,
         exported |-> <<>>, source |-> source]
  IN {<<>>,
      <<[leading |-> <<>>, kind |-> "declaration", exportKind |-> "value",
         specifiers |-> <<>>, exported |-> <<>>, source |-> ""],
        Named("z", "b"), Named("x", "a")>>}

\* The statements and tails drawn under a configuration: all of them under
\* the default one, the exports of 'a' and 'b' alone under the others.
ExpStatementsUnder(opts) ==
  IF ~opts.given THEN ExpStatements
  ELSE {st \in ExpStatements :
          /\ st.kind \in {"named", "all"}
          /\ st.leading = <<>>
          /\ st.exported = <<>>
          /\ \A s \in 1..Len(st.specifiers) : st.specifiers[s].exportKind = "value"}

ExpTailsUnder(opts) == IF ~opts.given THEN ExpTails ELSE {<<>>}

MaxExports == 3

\* The text of one statement.
ExportText(statement) ==
  LET formatSpecifier(spec) ==
        (IF spec.exportKind = "type" THEN <<"type", " ">> ELSE <<>>)
          \o (IF spec.local = spec.exported THEN <<spec.exported>>
              ELSE <<spec.local, " ", "as", " ", spec.exported>>)
      braces == <<"{", " ">>
                  \o Join([s \in 1..Len(statement.specifiers) |->
                             formatSpecifier(statement.specifiers[s])], <<",", " ">>, 1)
                  \o <<" ", "}">>
      from == <<" ", "from", " ", "'" \o statement.source \o "'", ";">>
      type == IF statement.exportKind = "type" THEN <<"type", " ">> ELSE <<>>
  IN CASE statement.kind = "named" -> <<"export", " ">> \o type \o braces \o from
       [] statement.kind = "all" ->
            <<"export", " ">> \o type \o <<"*">>
              \o (IF statement.exported # <<>>
                  THEN <<" ", "as", " ", statement.exported[1]>> ELSE <<>>)
              \o from
       [] statement.kind = "local" -> <<"export", " ">> \o braces \o <<";">>
       [] statement.kind = "declaration" ->
            <<"export", " ", "const", " ", "k", " ", "=", " ", "1", ";">>
       [] OTHER -> <<"k", "(", ")", ";">>

\* The file of the statements, one to a line, and the nodes of its parse.
ExportLayout(statements) ==
  LET Upto(k) == Join([i \in 1..k |-> statements[i].leading \o ExportText(statements[i])],
                      <<"\n">>, 1)
      Node(k, end) ==
        [nodeType |->
           CASE statements[k].kind = "all" -> "ExportAllDeclaration"
             [] statements[k].kind = "other" -> "ExpressionStatement"
             [] OTHER -> "ExportNamedDeclaration",
         exportKind |-> statements[k].exportKind,
         specifiers |-> statements[k].specifiers,
         exported |-> statements[k].exported,
         declaration |-> statements[k].kind = "declaration",
         source |-> IF statements[k].kind \in {"named", "all"}
                    THEN <<[value |-> statements[k].source, range |-> <<end - 2, end - 1>>]>>
                    ELSE <<>>,
         range |-> <<end - Len(ExportText(statements[k])), end>>]
  IN [atoms |-> Upto(Len(statements)),
      body |-> <<>> \o [k \in 1..Len(statements) |->
                 CHOOSE node \in {Node(k, end) : end \in {Len(Upto(k))}} : TRUE]]

InitExp ==
  /\ NoGame /\ NoWorkflow /\ NoScripts
  /\ options \in ExpOptions
  /\ sourceCode = <<>>
  /\ visited = NoNode
  /\ reports = <<>>
  /\ pc = "idle"

\* 'Program:exit' of sort-export, on a file of up to MaxExports statements and
\* a tail.  The range of the Program node starts at the first token, after
\* the comments that lead the file.
ExportsProgramExit ==
  /\ pc = "idle"
  /\ \E count \in 1..MaxExports :
       \E statements \in [1..count -> ExpStatementsUnder(options)],
          tail \in ExpTailsUnder(options) :
         \E layout \in {ExportLayout(statements \o tail)} :
           \E program \in {[nodeType |-> "Program", body |-> layout.body,
                            range |-> <<layout.body[1].range[1], Len(layout.atoms)>>]},
              realOption \in {ExpRealOption(options, layout.atoms)} :
             /\ sourceCode' = layout.atoms
             /\ visited' = program
             /\ reports' = sortExportsInProgram(program, layout.atoms, realOption)
  /\ pc' = "linted"
  /\ UNCHANGED options
  /\ UNCHANGED <<gameVars, workflowVars, scriptVars>>

NextExp == ExportsProgramExit \/ EngineFix

SpecExp == InitExp /\ [][NextExp]_vars

(***************************************************************************)
(* sort-export: what the claims are stated over                            *)
(***************************************************************************)

\* The statements of a text, read back from it: each ends at a `;` and starts
\* at the first token after the `;` before.  The nodes have the shape of
\* ExportLayout's.
ExpParse(text) ==
  LET ends == {e \in 1..Len(text) : text[e] = ";"}
      Start(e) ==
        CHOOSE p \in 1..e :
          /\ ~IsSpace(text[p]) /\ ~IsComment(text[p])
          /\ \A q \in 1..(p - 1) :
               IsSpace(text[q]) \/ IsComment(text[q]) \/ \E d \in ends : q <= d /\ d < p
          /\ \A d \in ends : d < e => d < p
      Has(p, e, word) == \E q \in p..e : text[q] = word
      At(p, e, word) == CHOOSE q \in p..e : text[q] = word
      Module(atom) == CASE atom = "'a'" -> "a" [] atom = "'b'" -> "b" [] OTHER -> atom
      Specifier(p) ==
        LET base == IF text[p - 2] = "as" THEN p - 4 ELSE p
        IN [local |-> text[base], exported |-> text[p],
            exportKind |-> IF text[base - 2] = "type" THEN "type" ELSE "value"]
      Names(p, e) ==
        IF ~Has(p, e, "{") THEN {}
        ELSE {q \in (At(p, e, "{") + 1)..(At(p, e, "}") - 1) :
                text[q + 1] \in {",", " "} /\ text[q] \notin {",", " ", "as", "type"}
                /\ (text[q + 1] = " " => text[q + 2] = "}")}
      Node(p, e) ==
        [nodeType |-> IF text[p] # "export" THEN "ExpressionStatement"
                      ELSE IF Has(p, e, "*") THEN "ExportAllDeclaration"
                      ELSE "ExportNamedDeclaration",
         exportKind |-> IF text[p] = "export" /\ text[p + 2] = "type" THEN "type" ELSE "value",
         specifiers |-> [k \in 1..Cardinality(Names(p, e)) |->
                           Specifier(CHOOSE q \in Names(p, e) :
                                       Cardinality({h \in Names(p, e) : h < q}) = k - 1)],
         exported |-> IF Has(p, e, "*") /\ Has(p, e, "as")
                      THEN <<text[At(p, e, "as") + 2]>> ELSE <<>>,
         declaration |-> Has(p, e, "const"),
         source |-> IF Has(p, e, "from")
                    THEN <<[value |-> Module(text[e - 1]), range |-> <<e - 2, e - 1>>]>>
                    ELSE <<>>,
         range |-> <<p - 1, e>>]
  IN <<>> \o [k \in 1..Cardinality(ends) |->
       CHOOSE node \in
         {Node(Start(e), e) :
            e \in {CHOOSE d \in ends : Cardinality({c \in ends : c < d}) = k - 1}} : TRUE]

ExpLinted == pc = "linted" /\ visited.nodeType = "Program"

\* The configured order.
ExpOrder == IF options.given /\ options.order = <<"desc">> THEN "desc" ELSE "asc"

\* `export { ... } from '...'` or `export * [as X] from '...'`.
ExpSortable(node) ==
  /\ node.nodeType \in {"ExportNamedDeclaration", "ExportAllDeclaration"}
  /\ node.source # <<>>

\* The maximal runs of consecutive sortable statements of a body, as pairs of
\* the first and the last.
ExpRuns(body) ==
  {run \in (1..Len(body)) \X (1..Len(body)) :
     /\ run[1] <= run[2]
     /\ \A k \in run[1]..run[2] : ExpSortable(body[k])
     /\ run[1] = 1 \/ ~ExpSortable(body[run[1] - 1])
     /\ run[2] = Len(body) \/ ~ExpSortable(body[run[2] + 1])}

\* The statements from i to j stand in key order.
ExpInKeyOrder(body, i, j) ==
  \A k \in i..(j - 1) :
    \E x \in {getExportKey(body[k])}, y \in {getExportKey(body[k + 1])} :
      \/ x = y
      \/ localeCompare(IF ExpOrder = "asc" THEN x ELSE y,
                       IF ExpOrder = "asc" THEN y ELSE x) <= 0

\* Two of the statements from i to j are `export { ... } from` the same module.
ExpMergeable(body, i, j) ==
  \E k, l \in i..j :
    /\ k # l
    /\ body[k].nodeType = "ExportNamedDeclaration"
    /\ body[l].nodeType = "ExportNamedDeclaration"
    /\ body[k].source[1].value = body[l].source[1].value

\* The text of the statements from i to j of a body, each as written.
ExpTexts(text, body, i, j) ==
  [k \in 1..(j - i + 1) |-> SubSeq(text, body[i + k - 1].range[1] + 1, body[i + k - 1].range[2])]

\* The fix of the report on the run leaves the statements outside the run as
\* they were and puts the run in key order.
ExpFixesRun(body, run, fix) ==
  \E after \in {ApplyFix(sourceCode, fix)} :
    \E fixed \in {ExpParse(after)} :
      \E last \in {Len(fixed) - (Len(body) - run[2])} :
        /\ fix.range[2] = body[run[2]].range[2]
        /\ fix.range[1] <= body[run[1]].range[1]
        /\ fix.range[1] >= (IF run[1] = 1 THEN 0 ELSE body[run[1] - 1].range[2])
        /\ last >= run[1]
        /\ ExpTexts(after, fixed, 1, run[1] - 1) = ExpTexts(sourceCode, body, 1, run[1] - 1)
        /\ ExpTexts(after, fixed, last + 1, Len(fixed))
             = ExpTexts(sourceCode, body, run[2] + 1, Len(body))
        /\ \A k \in run[1]..last : ExpSortable(fixed[k])
        /\ ExpInKeyOrder(fixed, run[1], last)

\* The reports are those of the runs that `reported` picks: one for each, on
\* its first statement, with a fix of that run alone when fixing is on.
ExpReportsRuns(Reported(_, _, _)) ==
  \E body \in {visited.body} :
    /\ \A r \in 1..Len(reports) :
         /\ reports[r].messageId = "exportsNotSorted"
         /\ reports[r].data = [order |-> ExpOrder]
         /\ \E run \in ExpRuns(body) : reports[r].node.range = body[run[1]].range
    /\ \A run \in ExpRuns(body) :
         \E of \in {{r \in 1..Len(reports) : reports[r].node.range = body[run[1]].range}} :
           /\ Cardinality(of) = IF Reported(body, run[1], run[2]) THEN 1 ELSE 0
           /\ \A r \in of :
                IF options.given /\ options.autoFix = <<"off">>
                THEN ~reports[r].fix.has
                ELSE reports[r].fix.has /\ ExpFixesRun(body, run, reports[r].fix)

\* A run of two statements or more that is out of key order or mergeable.
ExpOutOfOrderOrMergeable(body, i, j) ==
  j > i /\ (~ExpInKeyOrder(body, i, j) \/ ExpMergeable(body, i, j))

\* C15: every maximal run of consecutive `export ... from` statements is a
\* block of its own, ended by a local export or any other statement; a block
\* of one statement is not reported, and a block that is out of key order or
\* mergeable has exactly one exportsNotSorted report, whose fix replaces that
\* block alone, leaves the statements outside it unchanged and puts the
\* block's entries in key order.
C15_Blocks == ExpLinted => ExpReportsRuns(ExpOutOfOrderOrMergeable)

\* A run in which no two statements are export-alls of one module and kind
\* with another statement between them.
ExpNoSplitPair(body, i, j) ==
  ~\E k, l \in i..j :
     /\ k + 1 < l
     /\ getMergeKey(body[k]) = getMergeKey(body[l])
     /\ \E m \in (k + 1)..(l - 1) : getMergeKey(body[m]) # getMergeKey(body[k])

ExpReportedWhenUnsplit(body, i, j) ==
  IF ExpNoSplitPair(body, i, j) THEN ExpOutOfOrderOrMergeable(body, i, j)
  ELSE \E r \in 1..Len(reports) : reports[r].node.range = body[i].range

\* C15, with the runs left aside in which a statement stands between two
\* statements of one merge key: there the claim's report and fix are as stated.
C15_BlocksUnsplit == ExpLinted => ExpReportsRuns(ExpReportedWhenUnsplit)

\* The names of the sequence of specifiers stand in the configured order.
ExpNamesSorted(specs) ==
  \A s \in 1..(Len(specs) - 1) :
    IF ExpOrder = "asc"
    THEN ExpectedNameRank(specs[s].exported) < ExpectedNameRank(specs[s + 1].exported)
    ELSE ExpectedNameRank(specs[s].exported) > ExpectedNameRank(specs[s + 1].exported)

\* The statement lists the values without a prefix and then the types, each
\* with `type `, every name once and each list sorted; with no value it is an
\* `export type` of the types without a prefix.
ExpRendered(node, values, types) ==
  \E specs \in {node.specifiers}, n \in {Cardinality(values)} :
    /\ Len(specs) = n + Cardinality(types)
    /\ {specs[s].exported : s \in 1..n} = values
    /\ {specs[s].exported : s \in (n + 1)..Len(specs)} = types
    /\ ExpNamesSorted(SubSeq(specs, 1, n))
    /\ ExpNamesSorted(SubSeq(specs, n + 1, Len(specs)))
    /\ \A s \in 1..n : specs[s].exportKind = "value"
    /\ IF n = 0
       THEN node.exportKind = "type"
            /\ \A s \in 1..Len(specs) : specs[s].exportKind = "value"
       ELSE node.exportKind = "value"
            /\ \A s \in (n + 1)..Len(specs) : specs[s].exportKind = "type"

\* What every fix does to its block: the named exports of a module become one
\* statement, rendered from their value and type specifiers when there was
\* more than one and left as written otherwise, and the export-all statements
\* stay as they were, each on its own.  TypeSpec says which specifiers of
\* which declarations are type specifiers.
ExpMerges(TypeSpec(_, _)) ==
  \E body \in {visited.body} :
    \A r \in 1..Len(reports) :
      reports[r].fix.has =>
        \E run \in ExpRuns(body), after \in {ApplyFix(sourceCode, reports[r].fix)} :
          \E fixed \in {ExpParse(after)} :
            \E last \in {Len(fixed) - (Len(body) - run[2])} :
              LET Named(nodes, k, module) ==
                    /\ nodes[k].nodeType = "ExportNamedDeclaration"
                    /\ nodes[k].source # <<>>
                    /\ nodes[k].source[1].value = module
                  Text(text, nodes, k) == SubSeq(text, nodes[k].range[1] + 1, nodes[k].range[2])
                  Alls == {k \in run[1]..run[2] : body[k].nodeType = "ExportAllDeclaration"}
                  AllsAfter == {k \in run[1]..last : fixed[k].nodeType = "ExportAllDeclaration"}
              IN /\ reports[r].node.range = body[run[1]].range
                 /\ \A module \in {"a", "b"} :
                      \E from \in {{k \in run[1]..run[2] : Named(body, k, module)}},
                         into \in {{k \in run[1]..last : Named(fixed, k, module)}} :
                        /\ Cardinality(into) = IF from = {} THEN 0 ELSE 1
                        /\ \A k \in into :
                             IF Cardinality(from) = 1
                             THEN \A l \in from : Text(after, fixed, k) = Text(sourceCode, body, l)
                             ELSE ExpRendered(
                                    fixed[k],
                                    {name \in {"T", "U", "v", "x", "y", "z"} :
                                       \E l \in from : \E s \in 1..Len(body[l].specifiers) :
                                         /\ body[l].specifiers[s].exported = name
                                         /\ ~TypeSpec(body[l], body[l].specifiers[s])},
                                    {name \in {"T", "U", "v", "x", "y", "z"} :
                                       \E l \in from : \E s \in 1..Len(body[l].specifiers) :
                                         /\ body[l].specifiers[s].exported = name
                                         /\ TypeSpec(body[l], body[l].specifiers[s])})
                 /\ Cardinality(AllsAfter) = Cardinality(Alls)
                 /\ \A k \in Alls :
                      Cardinality({l \in AllsAfter : Text(after, fixed, l) = Text(sourceCode, body, k)})
                        = Cardinality({l \in Alls : Text(sourceCode, body, l) = Text(sourceCode, body, k)})

\* A specifier of an `export type` declaration, or one written `type name`.
ExpTypeSpecifier(declaration, specifier) ==
  declaration.exportKind = "type" \/ specifier.exportKind = "type"

\* A specifier of an `export type` declaration.
ExpOfTypeDeclaration(declaration, specifier) == declaration.exportKind = "type"

\* C14: in the fixed block all `export { ... } from` declarations of one module
\* are one statement, type-only and value ones together; it lists the value
\* specifiers and then the type specifiers, each with `type `, each list
\* sorted by exported name in the configured order and without duplicates;
\* with type specifiers alone it is `export type { ... }` without prefixes;
\* the export-all statements are merged with nothing.
C14_Merging == ExpLinted => ExpMerges(ExpTypeSpecifier)

\* C14 with the type specifiers read as the specifiers of the `export type`
\* declarations: what the rule does, a specifier written `type name` in a
\* value declaration counting as a value.
C14_MergingByDeclaration == ExpLinted => ExpMerges(ExpOfTypeDeclaration)

(***************************************************************************)
(* A lint pass, its fixes, and the next pass: unused-variable on files of  *)
(* one `let` declaration whose references are the ones written in the     *)
(* file                                                                    *)
(***************************************************************************)

\* The files: `let` with up to MaxDeclarators declarators a, b, c in turn,
\* each without initializer or initialized with a literal, a call or the
\* variable a, and after it nothing or a statement that reads a or b.
PassFiles ==
  LET Inits == {<<>>, <<"1">>, <<"f", "(", ")">>, <<"a">>}
      Declarator(name, init) ==
        <<name>> \o (IF init = <<>> THEN <<>> ELSE <<" ", "=", " ">> \o init)
      Text(inits) ==
        <<"let", " ">>
          \o Join([i \in 1..Len(inits) |-> Declarator(<<"a", "b", "c", "d">>[i], inits[i])],
                  <<",", " ">>, 1)
          \o <<";">>
  IN {Text(inits) \o tail :
        inits \in UNION {{s \in [1..n -> Inits] : s[1] # <<"a">>} : n \in 1..MaxDeclarators},
        tail \in {<<>>, <<"\n", "a", ";">>, <<"\n", "b", ";">>}}

\* The VariableDeclaration node of a file and its declared variables, as the
\* parser and the scope analysis give them: a variable's references are the
\* write of its initializer and every other place where its name is written.
\* NoNode when the file does not start with a declaration.
VarParse(text) ==
  LET stops == {p \in 1..Len(text) : text[p] = ";"}
      end == CHOOSE p \in stops : \A q \in stops : p <= q
      tokens == {p \in 1..end : ~IsSpace(text[p])}
      Prev(p) == CHOOSE q \in tokens : q < p /\ \A r \in tokens : r < p => r <= q
      starts == {p \in tokens : /\ p > 1
                                /\ text[p] \notin {",", ";"}
                                /\ text[Prev(p)] \in {"let", ","}}
      Last(s) == Prev(CHOOSE q \in tokens :
                        /\ q > s /\ text[q] \in {",", ";"}
                        /\ \A r \in tokens : (r > s /\ text[r] \in {",", ";"}) => q <= r)
      Init(s) ==
        IF ~\E q \in s..Last(s) : text[q] = "=" THEN "none"
        ELSE CASE text[Last(s)] = "1" -> "Literal"
               [] text[Last(s)] = ")" -> "CallExpression"
               [] OTHER -> "Identifier"
      Declarator(s) ==
        [nodeType |-> "VariableDeclarator", init |-> Init(s), range |-> <<s - 1, Last(s)>>]
      Variable(s) ==
        [nodeType |-> "Identifier", name |-> text[s],
         references |-> (IF Init(s) = "none" THEN 0 ELSE 1)
                          + Cardinality({p \in 1..Len(text) : p # s /\ text[p] = text[s]}),
         range |-> <<s - 1, s>>, parent |-> Declarator(s)]
      At(k) == CHOOSE s \in starts : Cardinality({r \in starts : r < s}) = k - 1
  IN IF Len(text) = 0 \/ text[1] # "let" \/ stops = {} THEN NoNode
     ELSE [nodeType |-> "VariableDeclaration", exported |-> FALSE,
           range |-> <<0, end>>,
           declarations |-> <<>> \o [k \in 1..Cardinality(starts) |-> Declarator(At(k))],
           variables |-> <<>> \o [k \in 1..Cardinality(starts) |-> Variable(At(k))]]

InitPass ==
  /\ NoGame /\ NoWorkflow /\ NoScripts
  /\ options \in VarOptions
  /\ sourceCode = <<>>
  /\ visited = NoNode
  /\ reports = <<>>
  /\ pc = "idle"

\* The VariableDeclaration listener on the declaration of a file.
LintPass ==
  /\ pc = "idle"
  /\ \E file \in PassFiles :
       \E node \in {VarParse(file)} :
         /\ sourceCode' = file
         /\ visited' = node
         /\ reports' = checkVariableDeclaration(file, node, VarRealOption(options))
  /\ pc' = "linted"
  /\ UNCHANGED options
  /\ UNCHANGED <<gameVars, workflowVars, scriptVars>>

\* The engine applies the fixes of the pass.
FixPass ==
  /\ pc = "linted"
  /\ sourceCode' = ApplyFixes(sourceCode, reports)
  /\ pc' = "fixed"
  /\ UNCHANGED <<options, visited, reports>>
  /\ UNCHANGED <<gameVars, workflowVars, scriptVars>>

\* The next pass, on the fixed file, with the same configuration.
LintAgain ==
  /\ pc = "fixed"
  /\ \E node \in {VarParse(sourceCode)} :
       /\ visited' = node
       /\ reports' = IF node = NoNode THEN <<>>
                     ELSE checkVariableDeclaration(sourceCode, node, VarRealOption(options))
  /\ pc' = "relinted"
  /\ UNCHANGED <<options, sourceCode>>
  /\ UNCHANGED <<gameVars, workflowVars, scriptVars>>

NextPass == LintPass \/ FixPass \/ LintAgain

SpecPass == InitPass /\ [][NextPass]_vars

\* C16: applying the fixes of one lint pass and linting the result again with
\* the same configuration gives no diagnostic of the rule: here for
\* unused-variable under every configuration that fixes.
C16_Idempotence == (pc = "relinted" /\ VarAutoFix) => reports = <<>>

\* The same for sort-export (under SpecExp): the text after the fixes of all
\* blocks, and the reports of the rule on it.
ExpFixedText == ApplyFixes(sourceCode, reports)

ExpLint(text) ==
  CHOOSE issued \in
    {sortExportsInProgram([nodeType |-> "Program", body |-> body,
                           range |-> <<IF body = <<>> THEN Len(text)
                                       ELSE body[1].range[1], Len(text)>>],
                          text, ExpRealOption(options, text)) :
       body \in {ExpParse(text)}} : TRUE

\* sort-export: after the fixes of a pass the next pass reports nothing.
ExpIdempotent ==
  (ExpLinted /\ ~(options.given /\ options.autoFix = <<"off">>))
    => \E fixed \in {ExpFixedText} : ExpLint(fixed) = <<>>

\* The framework of the preset whose groups are configured, as the module
\* specifier its import is written with.
SortPresetFramework ==
  IF SortCustomGroups = ReactSortImportGroups THEN "'react'" ELSE "'vue'"

SortUnderPreset == SortCustomGroups \in {ReactSortImportGroups, VueSortImportGroups}

\* C17: under the sort-import groups of the react preset (of the vue preset)
\* the fixed file has the import of react (of vue) before every import of
\* another package.
C17_FrameworkFirst ==
  (SortSettled /\ SortUnderPreset) =>
    \E after \in {SortStatements(SortAfter)} :
      \A i, j \in 1..Len(after) :
        (after[j].module = SortPresetFramework /\ after[i].module # SortPresetFramework)
          => j < i

\* Under the groups of the presets the framework's package has the group and
\* the key order of any other package.
SortPresetByKey == (SortSettled /\ SortUnderPreset) => SortOrdered(SortAfter, SortPinned)

(***************************************************************************)
(* The example game (examples/react and examples/vue): a board of nine     *)
(* squares, the history of its snapshots and the index of the current one. *)
(* A board is the sequence of its squares; squares[i] of the source is     *)
(* element i + 1 here.                                                     *)
(***************************************************************************)
DEAFULT_LINES ==
  << <<0, 1, 2>>, <<3, 4, 5>>, <<6, 7, 8>>, <<0, 3, 6>>, <<1, 4, 7>>, <<2, 5, 8>>,
     <<0, 4, 8>>, <<2, 4, 6>> >>

\* The mark of the first line, in the order of DEAFULT_LINES, that one player
\* fills; "null" when there is none.
calculateWinner(squares) ==
  LET Filled(item) ==
        /\ squares[item[1] + 1] # ""
        /\ squares[item[1] + 1] = squares[item[2] + 1]
        /\ squares[item[1] + 1] = squares[item[3] + 1]
      filled == {k \in 1..Len(DEAFULT_LINES) : Filled(DEAFULT_LINES[k])}
  IN IF filled = {} THEN "null"
     ELSE squares[DEAFULT_LINES[CHOOSE k \in filled : \A l \in filled : k <= l][1] + 1]

\* Board.handleClick without the test for a marked square.
handleClick_NoEmptyTest(squares, xIsNext, i) ==
  IF calculateWinner(squares) # "null" THEN <<>>
  ELSE <<[squares EXCEPT ![i + 1] = IF xIsNext THEN "X" ELSE "O"]>>

\* Board.handleClick without the test for a winner.
handleClick_NoWinnerTest(squares, xIsNext, i) ==
  IF squares[i + 1] # "" THEN <<>>
  ELSE <<[squares EXCEPT ![i + 1] = IF xIsNext THEN "X" ELSE "O"]>>

\* Board.handleClick: the arguments of its calls of onPlay, none when it returns
\* early.
handleClick(squares, xIsNext, i) ==
  IF calculateWinner(squares) # "null" \/ squares[i + 1] # "" THEN <<>>
  ELSE <<[squares EXCEPT ![i + 1] = IF xIsNext THEN "X" ELSE "O"]>>

\* Game.handlePlay with the new board put behind the whole history.
handlePlay_KeepsLater(game, nextSquares) ==
  LET nextHistory == game.history \o <<nextSquares>>
  IN [history |-> nextHistory, currentMove |-> Len(nextHistory) - 1]

\* Game.handlePlay (App.tsx) and handlePlay (App.vue): the two values it sets.
handlePlay(game, nextSquares) ==
  LET nextHistory == SubSeq(game.history, 1, game.currentMove + 1) \o <<nextSquares>>
  IN [history |-> nextHistory, currentMove |-> Len(nextHistory) - 1]

\* jumpTo (App.vue) and the onClick of a move button (App.tsx).
jumpTo(game, step) == [game EXCEPT !.currentMove = step]

\* A click on square i as the game on screen handles it: the board's handler
\* and, when it calls onPlay, the game's.
clickSquare(game, i) ==
  \* xIsNext and currentSquares as the game derives them
  LET xIsNext == game.currentMove % 2 = 0
      currentSquares == game.history[game.currentMove + 1]
      played == handleClick(currentSquares, xIsNext, i)
  IN IF played = <<>> THEN game ELSE handlePlay(game, played[1])

Game == [history |-> history, currentMove |-> currentMove]

Squares == 0..8

\* The number of moves a game of the model is played to.
MaxMoves == 5

InitGame ==
  /\ history = <<[i \in 1..9 |-> ""]>>
  /\ currentMove = 0
  /\ NoLint /\ NoWorkflow /\ NoScripts

SquareClick ==
  /\ history # <<>>
  /\ currentMove < MaxMoves
  /\ \E i \in Squares :
       \E game \in {clickSquare(Game, i)} :
         /\ history' = game.history
         /\ currentMove' = game.currentMove
  /\ UNCHANGED <<lintVars, workflowVars, scriptVars>>

MoveClick ==
  /\ history # <<>>
  /\ \E index \in 0..(Len(history) - 1) :
       \E game \in {jumpTo(Game, index)} :
         /\ history' = game.history
         /\ currentMove' = game.currentMove
  /\ UNCHANGED <<lintVars, workflowVars, scriptVars>>

NextGame == SquareClick \/ MoveClick

SpecGame == InitGame /\ [][NextGame]_vars

GameOn == history # <<>>

\* The boards on which one of the eight lines (three rows, three columns, two
\* diagonals) carries three equal marks.
GameWon(squares) ==
  \E line \in {{1, 2, 3}, {4, 5, 6}, {7, 8, 9}, {1, 4, 7}, {2, 5, 8}, {3, 6, 9},
               {1, 5, 9}, {3, 5, 7}} :
    \E mark \in {"X", "O"} : \A cell \in line : squares[cell] = mark

\* C18: in every state of the game a click on square i changes neither the
\* history nor the current move when the current board has a winner or the
\* square is marked; otherwise the history becomes the snapshots up to the
\* current one, each as it was, followed by the current board with square i
\* set to X (current move even) or O (odd), and that board is the current one.
C18_MoveHandling ==
  GameOn =>
    \A i \in Squares :
      \E after \in {clickSquare(Game, i)} :
        IF GameWon(history[currentMove + 1]) \/ history[currentMove + 1][i + 1] # ""
        THEN after.history = history /\ after.currentMove = currentMove
        ELSE /\ Len(after.history) = currentMove + 2
             /\ after.currentMove = currentMove + 1
             /\ \A k \in 1..(currentMove + 1) : after.history[k] = history[k]
             /\ after.history[currentMove + 2] =
                  [k \in 1..9 |->
                    IF k = i + 1 THEN (IF currentMove % 2 = 0 THEN "X" ELSE "O")
                    ELSE history[currentMove + 1][k]]

\* A game played to a win, the winning board on screen.
C18_Witness ==
  /\ GameOn
  /\ GameWon(history[currentMove + 1])
  /\ currentMove = Len(history) - 1
  /\ \E i \in Squares : history[currentMove + 1][i + 1] = ""

\* C19 as stated: right after the selection of index k the history holds
\* exactly the snapshots 0..k and snapshot k is the current board.
C19_AsStated ==
  GameOn =>
    \A k \in 0..(Len(history) - 1) :
      \E after \in {jumpTo(Game, k)} :
        /\ after.history = SubSeq(history, 1, k + 1)
        /\ after.currentMove = k

\* C19: the selection of index k makes snapshot k the current board and leaves
\* the history as it is; a move played on the board on screen, whichever
\* snapshot was selected, leaves the snapshots up to it followed by the new
\* board, every later snapshot discarded.
C19_SelectionThenPlay ==
  GameOn =>
    /\ \A k \in 0..(Len(history) - 1) :
         jumpTo(Game, k) = [history |-> history, currentMove |-> k]
    /\ \A i \in Squares :
         \E after \in {clickSquare(Game, i)} :
           \/ after = Game
           \/ /\ Len(after.history) = currentMove + 2
              /\ SubSeq(after.history, 1, currentMove + 1) =
                   SubSeq(history, 1, currentMove + 1)
              /\ after.history[currentMove + 2] # history[currentMove + 1]
              /\ after.currentMove = currentMove + 1

\* A past snapshot is on screen with later snapshots still in the history, and
\* a move can be played on it.
C19_Witness ==
  /\ GameOn
  /\ currentMove + 2 < Len(history)
  /\ \E i \in Squares : clickSquare(Game, i) # Game

(***************************************************************************)
(* The workflow "Build and Publish on merge master": a run for one push to *)
(* master.  The jobs are check-label, build-packages and publish-packages; *)
(* jobs[j].step counts the steps of job j that are over, jobs[j].ran lists *)
(* the ids of those that ran.  An output that no step wrote reads as "".   *)
(***************************************************************************)
JobNames == {"check-label", "build-packages", "publish-packages"}

OutputNames ==
  {"pr_number.value", "pr_labels.value", "skip_ci.value", "check_config.modified",
   "check_rule.modified"}

\* The label names of the model's pull requests.
LabelNames == {"skip_ci", "bug", "docs"}

\* The most labels a pull request of the model carries.
MaxLabels == 2

LabelLists ==
  UNION {{labels \in [1..n -> LabelNames] :
           \A i, j \in 1..n : labels[i] = labels[j] => i = j} : n \in 0..MaxLabels}

\* What GET /repos/{repo}/commits/{sha}/pulls answers: no pull request or one.
PullLists ==
  {<<>>} \cup {<<[number |-> "7", labels |-> labels]>> : labels \in LabelLists}

\* jq '.[0].number'
PrNumber(list) == IF list = <<>> THEN "null" ELSE list[1].number

\* The lines that `echo "value=$LABELS"` appends to $GITHUB_OUTPUT, LABELS being
\* the output of jq -r '.[].name', one label name per line.
LabelsOutputLines(labels) ==
  IF labels = <<>> THEN <<"value=">>
  ELSE <<"value=" \o labels[1]>> \o SubSeq(labels, 2, Len(labels))

\* The value of the output as the runner reads the file: the text behind
\* "value=" of the first line.
LabelsOutputValue(labels) == IF labels = <<>> THEN "" ELSE labels[1]

Queued == [status |-> "queued", step |-> 0, ran |-> <<>>]

Over(job) == jobs[job].status \in {"success", "failure", "skipped"}

StepOver(job, id, didRun) ==
  [jobs EXCEPT ![job].step = @ + 1,
               ![job].ran = IF didRun THEN Append(@, id) ELSE @]

InitWorkflow ==
  /\ pulls \in PullLists
  /\ outputs = [name \in OutputNames |-> ""]
  /\ jobs = [job \in JobNames |-> Queued]
  /\ NoLint /\ NoGame /\ NoScripts

\* check-label, step "Get PR Number".
GetPRNumber ==
  /\ jobs # <<>>
  /\ jobs["check-label"].status = "queued"
  /\ outputs' = [outputs EXCEPT !["pr_number.value"] = PrNumber(pulls)]
  /\ jobs' = [StepOver("check-label", "pr_number", TRUE) EXCEPT
                !["check-label"].status = "in_progress"]
  /\ UNCHANGED <<pulls, lintVars, gameVars, scriptVars>>

\* check-label, step "Get PR Labels".  A line of the output file that is not
\* of the form name=value is left to the runner: it fails the step or it reads
\* the lines before it.
GetPRLabels ==
  /\ jobs # <<>>
  /\ jobs["check-label"].status = "in_progress"
  /\ jobs["check-label"].step = 1
  /\ IF outputs["pr_number.value"] # "null"
     THEN \E lines \in {LabelsOutputLines(pulls[1].labels)} :
            \/ /\ outputs' = [outputs EXCEPT
                                !["pr_labels.value"] = LabelsOutputValue(pulls[1].labels)]
               /\ jobs' = StepOver("check-label", "pr_labels", TRUE)
            \/ /\ Len(lines) > 1
               /\ outputs' = outputs
               /\ jobs' = [StepOver("check-label", "pr_labels", TRUE) EXCEPT
                             !["check-label"].status = "failure"]
     ELSE /\ outputs' = outputs
          /\ jobs' = StepOver("check-label", "pr_labels", FALSE)
  /\ UNCHANGED <<pulls, lintVars, gameVars, scriptVars>>

\* check-label, step "Check for 'skip_ci' Label"; the job ends with it.
CheckSkipCi ==
  /\ jobs # <<>>
  /\ jobs["check-label"].status = "in_progress"
  /\ jobs["check-label"].step = 2
  /\ outputs' =
       [outputs EXCEPT !["skip_ci.value"] =
          IF outputs["pr_number.value"] = "null" \/ outputs["pr_labels.value"] = "skip_ci"
          THEN "true" ELSE @]
  /\ jobs' = [StepOver("check-label", "skip_ci", TRUE) EXCEPT
                !["check-label"].status = "success"]
  /\ UNCHANGED <<pulls, lintVars, gameVars, scriptVars>>

\* build-packages starts or is skipped: `needs: check-label` and
\* `if: needs.check-label.outputs.skip_ci != 'true'`.
BuildPackagesIf ==
  /\ jobs # <<>>
  /\ Over("check-label")
  /\ jobs["build-packages"].status = "queued"
  /\ jobs' = [jobs EXCEPT !["build-packages"].status =
                IF jobs["check-label"].status = "success" /\ outputs["skip_ci.value"] # "true"
                THEN "in_progress" ELSE "skipped"]
  /\ UNCHANGED <<pulls, outputs, lintVars, gameVars, scriptVars>>

\* build-packages, the steps check_config and check_rule: the number of files
\* that git diff names under each package.
CheckChanges ==
  /\ jobs # <<>>
  /\ jobs["build-packages"].status = "in_progress"
  /\ jobs["build-packages"].step = 0
  /\ \E config \in {"0", "1"}, rule \in {"0", "1"} :
       outputs' = [outputs EXCEPT !["check_config.modified"] = config,
                                  !["check_rule.modified"] = rule]
  /\ jobs' = [jobs EXCEPT !["build-packages"].step = 2,
                          !["build-packages"].ran = <<"check_config", "check_rule">>]
  /\ UNCHANGED <<pulls, lintVars, gameVars, scriptVars>>

\* build-packages, the steps from "Cache dist" to "Upgrade commit": each runs
\* under its condition, and the first that fails ends the job.
BuildSteps ==
  /\ jobs # <<>>
  /\ jobs["build-packages"].status = "in_progress"
  /\ jobs["build-packages"].step = 2
  /\ \E ran \in {(IF outputs["check_config.modified"] # "0" THEN <<"build_config">>
                  ELSE <<>>)
                 \o (IF outputs["check_rule.modified"] # "0" THEN <<"build_rule">>
                     ELSE <<>>)} :
       \E failed \in 0..Len(ran) :
         jobs' = [jobs EXCEPT
                    !["build-packages"].step = 7,
                    !["build-packages"].ran =
                       @ \o (IF failed = 0 THEN ran ELSE SubSeq(ran, 1, failed)),
                    !["build-packages"].status =
                       IF failed = 0 THEN "success" ELSE "failure"]
  /\ UNCHANGED <<pulls, outputs, lintVars, gameVars, scriptVars>>

\* publish-packages starts or is skipped: `needs: build-packages` and
\* `if: needs.build-packages.outputs.skip_ci != 'true'`.
PublishPackagesIf ==
  /\ jobs # <<>>
  /\ Over("build-packages")
  /\ jobs["publish-packages"].status = "queued"
  /\ jobs' = [jobs EXCEPT !["publish-packages"].status =
                IF /\ jobs["build-packages"].status = "success"
                   /\ outputs["skip_ci.value"] # "true"
                THEN "in_progress" ELSE "skipped"]
  /\ UNCHANGED <<pulls, outputs, lintVars, gameVars, scriptVars>>

\* publish-packages, a publish step: it runs when no step before it failed and
\* the package's count is not '0'; npm publish succeeds or fails.
PublishStep(at, id, modified) ==
  /\ jobs["publish-packages"].status \in {"in_progress", "failing"}
  /\ jobs["publish-packages"].step = at
  /\ IF jobs["publish-packages"].status = "in_progress" /\ outputs[modified] # "0"
     THEN \E published \in BOOLEAN :
            jobs' = [StepOver("publish-packages", id, TRUE) EXCEPT
                       !["publish-packages"].status =
                          IF published THEN @ ELSE "failing"]
     ELSE jobs' = StepOver("publish-packages", id, FALSE)
  /\ UNCHANGED <<pulls, outputs, lintVars, gameVars, scriptVars>>

PublishConfig ==
  /\ jobs # <<>>
  /\ PublishStep(0, "Publish eslint-config-jshow", "check_config.modified")

PublishRule ==
  /\ jobs # <<>>
  /\ PublishStep(1, "Publish eslint-plugin-jshow", "check_rule.modified")

\* publish-packages ends.
PublishPackagesOver ==
  /\ jobs # <<>>
  /\ jobs["publish-packages"].status \in {"in_progress", "failing"}
  /\ jobs["publish-packages"].step = 2
  /\ jobs' = [jobs EXCEPT !["publish-packages"].status =
                IF @ = "failing" THEN "failure" ELSE "success"]
  /\ UNCHANGED <<pulls, outputs, lintVars, gameVars, scriptVars>>

NextWorkflow ==
  \/ GetPRNumber
  \/ GetPRLabels
  \/ CheckSkipCi
  \/ BuildPackagesIf
  \/ CheckChanges
  \/ BuildSteps
  \/ PublishPackagesIf
  \/ PublishConfig
  \/ PublishRule
  \/ PublishPackagesOver

SpecWorkflow == InitWorkflow /\ [][NextWorkflow]_vars

WorkflowOn == jobs # <<>>

\* The push has no pull request, or its pull request has a label skip_ci.
WorkflowGated ==
  \/ pulls = <<>>
  \/ \E i \in 1..Len(pulls[1].labels) : pulls[1].labels[i] = "skip_ci"

JobRuns(job) == jobs[job].status \notin {"queued", "skipped"}

\* C20: for a push without a pull request or whose pull request has a label
\* skip_ci, alone or among others, check-label ends with skip_ci 'true' and
\* neither build-packages nor publish-packages runs; for any other push
\* skip_ci is not 'true' and build-packages runs.
C20_LabelGate ==
  WorkflowOn =>
    IF WorkflowGated
    THEN /\ Over("check-label") => outputs["skip_ci.value"] = "true"
         /\ ~JobRuns("build-packages")
         /\ ~JobRuns("publish-packages")
    ELSE /\ outputs["skip_ci.value"] # "true"
         /\ Over("build-packages") => JobRuns("build-packages")

\* The gate for the pushes whose pull request has at most one label.
C20_GateOfOneLabel ==
  (WorkflowOn /\ (pulls = <<>> \/ Len(pulls[1].labels) <= 1)) => C20_LabelGate

\* Whatever the labels: without skip_ci 'true' from a successful check-label
\* the two later jobs never run, and publish-packages runs only after a
\* successful build-packages.
C20_LaterJobs ==
  WorkflowOn =>
    /\ JobRuns("build-packages") =>
         jobs["check-label"].status = "success" /\ outputs["skip_ci.value"] # "true"
    /\ JobRuns("publish-packages") => jobs["build-packages"].status = "success"
    /\ pulls = <<>> => ~JobRuns("build-packages")

\* The publish steps of publish-packages that ran in this run.
Attempted(id) ==
  \E i \in 1..Len(jobs["publish-packages"].ran) : jobs["publish-packages"].ran[i] = id

\* A package is published only after a count other than '0'.
C21_PublishOnlyChanged ==
  WorkflowOn =>
    /\ Attempted("Publish eslint-config-jshow") => outputs["check_config.modified"] = "1"
    /\ Attempted("Publish eslint-plugin-jshow") => outputs["check_rule.modified"] = "1"

\* C21: a package's publish step runs only when its changed count is not '0',
\* and when publish-packages has run with both counts not '0', both publish
\* steps were attempted, whether or not the other one failed.
C21_PublishIndependent ==
  /\ C21_PublishOnlyChanged
  /\ (WorkflowOn /\ Over("publish-packages") /\ JobRuns("publish-packages")) =>
       /\ outputs["check_config.modified"] # "0" => Attempted("Publish eslint-config-jshow")
       /\ outputs["check_rule.modified"] # "0" => Attempted("Publish eslint-plugin-jshow")

(***************************************************************************)
(* The release scripts (scripts/upgrade-version.js, scripts/npm-publish.js *)
(* and the package builder of scripts/utils.ts) and the manifests they     *)
(* read and write.  fs maps a path to a file: its state ("ok", "ENOENT"    *)
(* for no such file, "garbled" for text that JSON.parse rejects), the      *)
(* parsed manifest and whether the file can be written.  A manifest is a   *)
(* record of its fields, U for an absent field; an optional object is a    *)
(* sequence of none or one, dependencies a set of <<name, range>> pairs.   *)
(* A command yields the disk it leaves, its exit status, the messages on   *)
(* stderr and the paths it wrote, in order.                                *)
(***************************************************************************)
Null == "null"

ROOT_MANIFEST == "package.json"

PackageManifest(folder) == "packages/" \o folder \o "/package.json"

DistManifest(name) == "dist/" \o name \o "/package.json"

PLUGIN_NAME == "eslint-plugin-jshow"

CONFIG_NAME == "eslint-config-jshow"

NoManifest ==
  [name |-> U, version |-> U, description |-> U, license |-> U, author |-> U,
   keywords |-> U, repository |-> U, homepage |-> U, bugs |-> U, main |-> U,
   scripts |-> U, devDependencies |-> U, dependencies |-> <<>>,
   peerDependencies |-> <<>>]

NoFile == [state |-> "ENOENT", json |-> NoManifest, writable |-> TRUE]

\* The file at a path, also for a path that names nothing on the disk.
FileAt(disk, fn) == IF fn \in DOMAIN disk THEN disk[fn] ELSE NoFile

\* The largest patch number of the model's versions.
MaxPatch == 1

\* The versions x.y.z that the model writes and reads.
Triples == {<<major, 0, patch>> : major \in 0..2, patch \in 0..(MaxPatch + 1)}

FormatVersion(triple) ==
  ToString(triple[1]) \o "." \o ToString(triple[2]) \o "." \o ToString(triple[3])

PRERELEASE == "-beta.1"

\* semver.parse: the x.y.z of a version string and its prerelease tag, none for
\* a string that is no version.
semverParse(version) ==
  LET plain == {t \in Triples : FormatVersion(t) = version}
      tagged == {t \in Triples : FormatVersion(t) \o PRERELEASE = version}
  IN IF plain # {} THEN <<[triple |-> CHOOSE t \in plain : TRUE, prerelease |-> FALSE]>>
     ELSE IF tagged # {}
     THEN <<[triple |-> CHOOSE t \in tagged : TRUE, prerelease |-> TRUE]>>
     ELSE <<>>

\* semver.inc(version, 'patch'): null for a string that is no version; a
\* prerelease of x.y.z becomes x.y.z, any other version gets the next patch
\* number.
semverIncPatch(version) ==
  CHOOSE next \in
    {IF parsed = <<>> THEN Null
     ELSE IF parsed[1].prerelease THEN FormatVersion(parsed[1].triple)
     ELSE FormatVersion([parsed[1].triple EXCEPT ![3] = @ + 1]) :
       parsed \in {semverParse(version)}} : TRUE

\* !value of JavaScript for the values of a manifest field.
Falsy(value) == value \in {U, Null, ""}

ERR_READ == "cannot read or parse package.json"

ERR_READ_ROOT == "cannot read root package.json"

ERR_READ_RULE == "cannot read rule package.json"

ERR_WRITE == "cannot write file"

ERR_NO_PACKAGE == "missing -p"

ERR_USAGE == "usage: node upgrade-version.js -p <config|rule> [-v <version>]"

ERR_BAD_PACKAGE == "-p must be config or rule"

ERR_NO_VERSION == "no version field in package.json"

ERR_UNCAUGHT == "TypeError: Cannot set properties of undefined"

\* What node prints when the package.json next above the script cannot be parsed.
ERR_PACKAGE_CONFIG == "SyntaxError: Error parsing package.json"

\* node reads the package.json next above a script before it runs the script,
\* and ends with an uncaught SyntaxError when it holds no JSON.
LoaderThrows(disk) == FileAt(disk, ROOT_MANIFEST).state = "garbled"

\* readPackageJson(fn): the parsed manifest, or null after a message on stderr.
readPackageJson(disk, fn) ==
  CHOOSE read \in
    {IF file.state = "ok" THEN [json |-> <<file.json>>, stderr |-> <<>>]
     ELSE [json |-> <<>>, stderr |-> <<ERR_READ>>] : file \in {FileAt(disk, fn)}} : TRUE

Exited(disk, status, stderr, writes) ==
  [fs |-> disk, status |-> status, stderr |-> stderr, writes |-> writes]

\* JSON.stringify(json), read back: a property whose value is undefined is left
\* out, one whose value is null is kept.
JSONstringify(json) ==
  LET Defined(object) ==
        IF object = <<>> THEN <<>> ELSE <<{pair \in object[1] : pair[2] # U}>>
  IN [json EXCEPT !.dependencies = Defined(@), !.peerDependencies = Defined(@)]

\* fs.writeFileSync(fn, JSON.stringify(json)): the disk after it, or the error
\* it throws.
writeFileSync(disk, fn, json) ==
  IF FileAt(disk, fn).writable
  THEN <<[fn2 \in DOMAIN disk \cup {fn} |->
           IF fn2 = fn
           THEN [state |-> "ok", json |-> JSONstringify(json), writable |-> TRUE]
           ELSE disk[fn2]]>>
  ELSE <<>>

\* The option parser of upgrade-version.js: -p and -v take the next argument.
RECURSIVE upgradeOptions(_, _, _)
upgradeOptions(args, i, parsed) ==
  IF i > Len(args) THEN parsed
  ELSE IF args[i] = "-p" /\ i + 1 <= Len(args)
  THEN upgradeOptions(args, i + 2, [parsed EXCEPT !.package = args[i + 1]])
  ELSE IF args[i] = "-v" /\ i + 1 <= Len(args)
  THEN upgradeOptions(args, i + 2, [parsed EXCEPT !.version = args[i + 1]])
  ELSE upgradeOptions(args, i + 1, parsed)

\* The option parser of npm-publish.js: -p takes the next argument.
RECURSIVE publishOptions(_, _, _)
publishOptions(args, i, parsed) ==
  IF i > Len(args) THEN parsed
  ELSE IF args[i] = "-p" /\ i + 1 <= Len(args)
  THEN publishOptions(args, i + 2, [parsed EXCEPT !.package = args[i + 1]])
  ELSE publishOptions(args, i + 1, parsed)

\* The shared metadata of the root manifest copied into a package manifest.
CopyRootFields(packageJson, rootPackageJson) ==
  [packageJson EXCEPT !.license = rootPackageJson.license,
                      !.homepage = rootPackageJson.homepage,
                      !.repository = rootPackageJson.repository,
                      !.bugs = rootPackageJson.bugs]

\* packageJson.dependencies['eslint-plugin-jshow'] = version
PinPlugin(dependencies, version) ==
  {pair \in dependencies : pair[1] # PLUGIN_NAME} \cup {<<PLUGIN_NAME, version>>}

\* The end of both scripts for -p config: the rule manifest is read and its
\* version pinned; the assignment throws when the manifest has no dependencies.
\* failing is the status of a failed final write.
PinAndWrite(disk, fn, packageJson, isConfig, failing) ==
  LET rulePackageJson == readPackageJson(disk, PackageManifest("rule"))
      Written(json) ==
        CHOOSE exited \in
          {IF after = <<>> THEN Exited(disk, failing, <<ERR_WRITE>>, <<>>)
           ELSE Exited(after[1], 0, <<>>, <<fn>>) :
             after \in {writeFileSync(disk, fn, json)}} : TRUE
  IN IF ~isConfig THEN Written(packageJson)
     ELSE CHOOSE exited \in
       {IF rule.json = <<>> THEN Exited(disk, 1, rule.stderr \o <<ERR_READ_RULE>>, <<>>)
        ELSE IF packageJson.dependencies = <<>>
        THEN Exited(disk, 1, <<ERR_UNCAUGHT>>, <<>>)
        ELSE Written([packageJson EXCEPT
                        !.dependencies =
                           <<PinPlugin(packageJson.dependencies[1], rule.json[1].version)>>]) :
          rule \in {rulePackageJson}} : TRUE

\* scripts/upgrade-version.js, run with the arguments args on the disk.
upgradeVersion(args, disk) ==
  LET given == upgradeOptions(args, 1, [package |-> "", version |-> ""])
      packageJsonPath == PackageManifest(given.package)
      packageJson == readPackageJson(disk, packageJsonPath)
      rootPackageJson == readPackageJson(disk, ROOT_MANIFEST)
  IN IF LoaderThrows(disk) THEN Exited(disk, 1, <<ERR_PACKAGE_CONFIG>>, <<>>)
     ELSE IF given.package = "" THEN Exited(disk, 1, <<ERR_NO_PACKAGE, ERR_USAGE>>, <<>>)
     ELSE IF given.package # "config" /\ given.package # "rule"
     THEN Exited(disk, 1, <<ERR_BAD_PACKAGE>>, <<>>)
     ELSE IF packageJson.json = <<>> THEN Exited(disk, 1, packageJson.stderr, <<>>)
     ELSE IF rootPackageJson.json = <<>>
     THEN Exited(disk, 1, rootPackageJson.stderr \o <<ERR_READ_ROOT>>, <<>>)
     ELSE IF Falsy(packageJson.json[1].version)
     THEN Exited(disk, 1, <<ERR_NO_VERSION>>, <<>>)
     ELSE PinAndWrite(
            disk, packageJsonPath,
            [CopyRootFields(packageJson.json[1], rootPackageJson.json[1]) EXCEPT
               !.scripts = U,
               !.devDependencies = U,
               !.version = IF given.version # "" THEN given.version
                           ELSE semverIncPatch(@)],
            given.package = "config", 1)

\* scripts/npm-publish.js, run with the arguments args on the disk.  A failed
\* write is caught and logged, and the script ends as after a write.
npmPublish(args, disk) ==
  LET given == publishOptions(args, 1, [package |-> ""])
      packageJsonPath == PackageManifest(given.package)
      packageJson == readPackageJson(disk, packageJsonPath)
      rootPackageJson == readPackageJson(disk, ROOT_MANIFEST)
  IN IF LoaderThrows(disk) THEN Exited(disk, 1, <<ERR_PACKAGE_CONFIG>>, <<>>)
     ELSE IF packageJson.json = <<>> THEN Exited(disk, 1, packageJson.stderr, <<>>)
     ELSE IF rootPackageJson.json = <<>>
     THEN Exited(disk, 1, rootPackageJson.stderr \o <<ERR_READ_ROOT>>, <<>>)
     ELSE PinAndWrite(
            disk, packageJsonPath,
            [CopyRootFields(packageJson.json[1], rootPackageJson.json[1]) EXCEPT
               !.devDependencies = U],
            given.package = "config", 0)

\* a ?? b of JavaScript
Nullish(value, other) == IF value \in {U, Null} THEN other ELSE value

\* remove(dist) of build: the built package is gone from the disk.
remove(disk, pkgName) ==
  [fn \in DOMAIN disk |-> IF fn = DistManifest(pkgName) THEN NoFile ELSE disk[fn]]

\* generate(cwd, dist, name, version) of scripts/utils.ts on the disk: the
\* package manifest is read and the built manifest written from it and from
\* ROOT_PKG, the root manifest as it was read when utils.ts was loaded.  A
\* manifest that cannot be read rejects the promise, which is logged and ends
\* the process with status 1.
generate(folderName, pkgName, pkgVers, ROOT_PKG, disk) ==
  LET pkg == FileAt(disk, PackageManifest(folderName))
      manifest ==
        [NoManifest EXCEPT
           !.name = pkgName,
           !.version = pkgVers,
           !.description = ROOT_PKG.description,
           !.license = ROOT_PKG.license,
           !.author = ROOT_PKG.author,
           !.keywords = Nullish(pkg.json.keywords, Nullish(ROOT_PKG.keywords, "[]")),
           !.repository = ROOT_PKG.repository,
           !.homepage = ROOT_PKG.homepage,
           !.bugs = ROOT_PKG.bugs,
           !.main = "index.js",
           !.dependencies =
              IF pkg.json.dependencies = <<>> THEN <<{}>> ELSE pkg.json.dependencies,
           !.peerDependencies =
              IF pkg.json.peerDependencies = <<>> THEN <<{}>>
              ELSE pkg.json.peerDependencies]
  IN IF pkg.state # "ok" THEN Exited(disk, 1, <<ERR_READ>>, <<>>)
     ELSE Exited([fn \in DOMAIN disk \cup {DistManifest(pkgName)} |->
                    IF fn = DistManifest(pkgName)
                    THEN [state |-> "ok", json |-> manifest, writable |-> TRUE]
                    ELSE disk[fn]],
                 0, <<>>, <<DistManifest(pkgName)>>)

\* The version that the build entry point of a package hands to buildPackage:
\* TARGET_VERSION, else the version of ROOT_PKG, else 0.0.1.
buildEntry(TARGET_VERSION, ROOT_PKG) ==
  IF ~Falsy(TARGET_VERSION) THEN TARGET_VERSION
  ELSE IF ~Falsy(ROOT_PKG.version) THEN ROOT_PKG.version
  ELSE "0.0.1"

\* The number of a system error.
Errno(code) ==
  CASE code = "EPERM" -> 1
    [] code = "ENOENT" -> 2
    [] code = "EACCES" -> 13

\* The exit status of npm after a failed system call: the negated errno of
\* the call, as the shell sees it (254 for ENOENT, 243 for EACCES, 255 for
\* EPERM).
npmExit(code) == 256 - Errno(code)

\* The errors of a write to a file that cannot be written: EACCES for a file
\* without write permission, EPERM for an immutable one.
WriteErrors == {"EACCES", "EPERM"}

\* `npm version patch --no-git-tag-version` in a package folder, as the
\* workflow runs it.  npm works on the nearest package.json at or above the
\* folder, the root's when the folder has none; the version becomes the next
\* patch number, and 0.0.1 when the manifest has no version (none, null or
\* ""); the other fields stay.  npm ends with status 1 on a manifest or a
\* version it cannot parse, with the errno of the failed call when no
\* manifest is found (ENOENT) or the manifest cannot be written (errno).
npmVersionPatch(folderName, disk, errno) ==
  LET own == PackageManifest(folderName)
      fn == IF FileAt(disk, own).state = "ENOENT" THEN ROOT_MANIFEST ELSE own
      file == FileAt(disk, fn)
      version == IF Falsy(file.json.version) THEN "0.0.1"
                 ELSE semverIncPatch(file.json.version)
  IN IF file.state = "ENOENT" THEN Exited(disk, npmExit("ENOENT"), <<"npm error enoent">>, <<>>)
     ELSE IF file.state # "ok" THEN Exited(disk, 1, <<"npm error">>, <<>>)
     ELSE IF version = Null THEN Exited(disk, 1, <<"npm error">>, <<>>)
     ELSE IF ~file.writable THEN Exited(disk, npmExit(errno), <<"npm error">>, <<>>)
     ELSE Exited([disk EXCEPT ![fn].json.version = version], 0, <<>>, <<fn>>)

\* node -p "require('./package.json').version" in a package folder: the text of
\* the version, nothing when the manifest cannot be loaded.
nodePrintVersion(folderName, disk) ==
  LET file == FileAt(disk, PackageManifest(folderName))
  IN IF file.state # "ok" THEN ""
     ELSE IF file.json.version = U THEN "undefined"
     ELSE IF file.json.version = Null THEN "null"
     ELSE file.json.version

\* `npm run build:<folder>` at the root, up to the start of the script: npm
\* ends with ENOENT when the root has no package.json and with status 1 when
\* it cannot parse it; else it runs the script and ends with its status.
npmRun(disk) ==
  LET file == FileAt(disk, ROOT_MANIFEST)
  IN IF file.state = "ENOENT" THEN Exited(disk, npmExit("ENOENT"), <<"npm error enoent">>, <<>>)
     ELSE IF file.state # "ok" THEN Exited(disk, 1, <<"npm error">>, <<>>)
     ELSE Exited(disk, 0, <<>>, <<>>)

\* The manifests of the model.
RootManifest ==
  [NoManifest EXCEPT !.name = "eslint-jshow", !.version = "1.0.0", !.description = "lint",
                     !.license = "MIT", !.author = "jShow", !.keywords = "eslint",
                     !.repository = "git", !.homepage = "home", !.bugs = "issues",
                     !.scripts = "scripts", !.devDependencies = "dev"]

RuleManifest(version) ==
  [NoManifest EXCEPT !.name = PLUGIN_NAME, !.version = version, !.scripts = "scripts",
                     !.devDependencies = "dev", !.peerDependencies = <<{<<"eslint", "9">>}>>]

ConfigManifest(version, dependencies) ==
  [NoManifest EXCEPT !.name = CONFIG_NAME, !.version = version, !.scripts = "scripts",
                     !.devDependencies = "dev", !.dependencies = dependencies]

Ok(json) == [state |-> "ok", json |-> json, writable |-> TRUE]

\* The repository as checked out: the three manifests agree on 1.0.0.
CleanDisk ==
  (ROOT_MANIFEST :> Ok(RootManifest))
  @@ (PackageManifest("config") :>
        Ok(ConfigManifest("1.0.0", <<{<<PLUGIN_NAME, "1.0.0">>, <<"globals", "15">>}>>)))
  @@ (PackageManifest("rule") :> Ok(RuleManifest("1.0.0")))
  @@ (DistManifest(CONFIG_NAME) :> NoFile)
  @@ (DistManifest(PLUGIN_NAME) :> NoFile)

\* The disks a command of the model starts from: the clean one, and the clean
\* one with one manifest missing, garbled, read-only, without a field, or with
\* another version.
Disks ==
  {CleanDisk}
  \cup {[CleanDisk EXCEPT ![fn].state = state] :
          fn \in {ROOT_MANIFEST, PackageManifest("config"), PackageManifest("rule")},
          state \in {"ENOENT", "garbled"}}
  \cup {[CleanDisk EXCEPT ![fn].writable = FALSE] :
          fn \in {PackageManifest("config"), PackageManifest("rule")}}
  \cup {[CleanDisk EXCEPT ![fn].json.version = version] :
          fn \in {PackageManifest("config"), PackageManifest("rule")},
          version \in {U, "1.0", "1.0.0" \o PRERELEASE}}
  \cup {[CleanDisk EXCEPT ![PackageManifest("config")].json.dependencies = <<>>]}

UpgradeArgs ==
  {<<>>, <<"-p">>, <<"-v", "2.0.0">>, <<"-p", "eslint">>, <<"-p", "config">>,
   <<"-p", "rule">>, <<"-p", "rule", "-v", "2.0.0">>, <<"-v", "2.0.0", "-p", "config">>}

PublishArgs == {<<>>, <<"-p">>, <<"-p", "eslint">>, <<"-p", "config">>, <<"-p", "rule">>}

Folders == {<<"config", CONFIG_NAME>>, <<"rule", PLUGIN_NAME>>}

\* The patch number of a manifest's version, 0 when it has none.
PatchOf(disk, fn) ==
  LET parsed == semverParse(FileAt(disk, fn).json.version)
  IN IF parsed = <<>> THEN 0 ELSE parsed[1].triple[3]

\* A command has ended; output is what it appended to $GITHUB_OUTPUT.
Ran(command, args, exited, output) ==
  /\ fs' = exited.fs
  /\ proc' = [command |-> command, args |-> args, at |-> "exited",
              status |-> exited.status, stderr |-> exited.stderr,
              writes |-> exited.writes, output |-> output,
              pkgVers |-> "", ROOT_PKG |-> NoManifest]
  /\ UNCHANGED <<lintVars, gameVars, workflowVars>>

\* The running command has come to the position at; it goes on from there.
Goes(at, disk, writes, output, pkgVers, ROOT_PKG) ==
  /\ fs' = disk
  /\ proc' = [proc EXCEPT !.at = at, !.writes = @ \o writes, !.output = @ \o output,
                          !.pkgVers = pkgVers, !.ROOT_PKG = ROOT_PKG]
  /\ UNCHANGED <<lintVars, gameVars, workflowVars>>

\* The running command ends with what it has written and printed so far.
Ends(exited) ==
  Ran(proc.command, proc.args,
      Exited(exited.fs, exited.status, proc.stderr \o exited.stderr,
             proc.writes \o exited.writes),
      proc.output)

InitRelease ==
  /\ fs \in Disks
  /\ proc = [command |-> "", args |-> <<>>, at |-> "exited", status |-> 0,
             stderr |-> <<>>, writes |-> <<>>, output |-> <<>>,
             pkgVers |-> "", ROOT_PKG |-> NoManifest]
  /\ NoLint /\ NoGame /\ NoWorkflow

\* node scripts/upgrade-version.js <args>
UpgradeVersion ==
  /\ fs # <<>>
  /\ proc.at = "exited"
  /\ \E args \in UpgradeArgs :
       /\ \A folder \in Folders : PatchOf(fs, PackageManifest(folder[1])) < MaxPatch
       /\ Ran("upgrade-version", args, upgradeVersion(args, fs), <<>>)

\* node scripts/npm-publish.js <args>
NpmPublish ==
  /\ fs # <<>>
  /\ proc.at = "exited"
  /\ \E args \in PublishArgs : Ran("npm-publish", args, npmPublish(args, fs), <<>>)

\* The step "Build packages/config" or "Build packages/rule" of the workflow
\* is one script that bash runs with -e, so that a failing command ends the
\* step with its status: cd into the package folder, npm version patch, the
\* line version=... on $GITHUB_OUTPUT, cd back, and npm run build:<folder>.
\* The step sets no TARGET_VERSION.  This is its first command, npm version
\* patch.
NpmVersionPatch ==
  /\ fs # <<>>
  /\ proc.at = "exited"
  /\ \E folder \in Folders, errno \in WriteErrors :
       /\ PatchOf(fs, PackageManifest(folder[1])) < MaxPatch
       /\ PatchOf(fs, ROOT_MANIFEST) < MaxPatch
       /\ \E bumped \in {npmVersionPatch(folder[1], fs, errno)} :
            IF bumped.status # 0
            THEN Ran("build step", <<folder[1], folder[2]>>, bumped, <<>>)
            ELSE /\ fs' = bumped.fs
                 /\ proc' = [command |-> "build step", args |-> <<folder[1], folder[2]>>,
                             at |-> "bumped", status |-> 0, stderr |-> <<>>,
                             writes |-> bumped.writes, output |-> <<>>,
                             pkgVers |-> "", ROOT_PKG |-> NoManifest]
                 /\ UNCHANGED <<lintVars, gameVars, workflowVars>>

\* The second command of the step: echo "version=$(node -p ...)" >>
\* $GITHUB_OUTPUT, which succeeds whatever node does.
EchoVersion ==
  /\ fs # <<>>
  /\ proc.at = "bumped"
  /\ Goes("echoed", fs, <<>>, <<"version=" \o nodePrintVersion(proc.args[1], fs)>>,
          "", NoManifest)

\* The last command of the step, npm run build:<folder>, up to the start of
\* the package's build entry point: utils.ts is loaded, which reads ROOT_PKG,
\* and buildPackage is called with the version.
NpmRunBuild ==
  /\ fs # <<>>
  /\ proc.at = "echoed"
  /\ \E npm \in {npmRun(fs)} :
       IF npm.status # 0 THEN Ends(npm)
       ELSE \E ROOT_PKG \in {FileAt(fs, ROOT_MANIFEST).json} :
              Goes("started", fs, <<>>, <<>>, buildEntry("", ROOT_PKG), ROOT_PKG)

\* The build entry point of the config or the rule package, run by hand with
\* or without TARGET_VERSION, up to the call of buildPackage: utils.ts is
\* loaded, which reads ROOT_PKG and throws when it cannot.
BuildPackage ==
  /\ fs # <<>>
  /\ proc.at = "exited"
  /\ \E folder \in Folders, TARGET_VERSION \in {"", "1.0.1"} :
       \E file \in {FileAt(fs, ROOT_MANIFEST)} :
         IF file.state # "ok"
         THEN Ran("build", <<folder[1], folder[2]>>, Exited(fs, 1, <<ERR_READ>>, <<>>),
                  <<>>)
         ELSE /\ fs' = fs
              /\ proc' = [command |-> "build", args |-> <<folder[1], folder[2]>>,
                          at |-> "started", status |-> 0, stderr |-> <<>>,
                          writes |-> <<>>, output |-> <<>>,
                          pkgVers |-> buildEntry(TARGET_VERSION, file.json),
                          ROOT_PKG |-> file.json]
              /\ UNCHANGED <<lintVars, gameVars, workflowVars>>

\* build of scripts/utils.ts up to its second await: remove(dist) and
\* remove(cwd/dist) have deleted what an earlier build left.
BuildClean ==
  /\ fs # <<>>
  /\ proc.at = "started"
  /\ Goes("cleaned", remove(fs, proc.args[2]), <<>>, <<>>, proc.pkgVers, proc.ROOT_PKG)

\* The rest of build: `npm run build` in the package folder.  When it fails
\* the promise of main is rejected, which is logged and ends the process with
\* status 1.
BuildRun ==
  /\ fs # <<>>
  /\ proc.at = "cleaned"
  /\ \E built \in BOOLEAN :
       IF built THEN Goes("built", fs, <<>>, <<>>, proc.pkgVers, proc.ROOT_PKG)
       ELSE Ends(Exited(fs, 1, <<"npm run build failed">>, <<>>))

\* generate of scripts/utils.ts: the bundle is moved to dist and the built
\* manifest is written.
BuildGenerate ==
  /\ fs # <<>>
  /\ proc.at = "built"
  /\ Ends(generate(proc.args[1], proc.args[2], proc.pkgVers, proc.ROOT_PKG, fs))

NextRelease ==
  \/ UpgradeVersion \/ NpmPublish
  \/ NpmVersionPatch \/ EchoVersion \/ NpmRunBuild
  \/ BuildPackage \/ BuildClean \/ BuildRun \/ BuildGenerate

SpecRelease == InitRelease /\ [][NextRelease]_vars

ReleaseOn == fs # <<>>

\* The range that a manifest's dependencies give for eslint-plugin-jshow.
PluginPins(json) ==
  IF json.dependencies = <<>> THEN {}
  ELSE {pair[2] : pair \in {p \in json.dependencies[1] : p[1] = PLUGIN_NAME}}

\* C22: whenever both packages are built, the built manifest of the config
\* package depends on eslint-plugin-jshow at the version of the built manifest
\* of the rule package.
C22_ConfigPinsBuiltRule ==
  (/\ ReleaseOn
   /\ fs[DistManifest(CONFIG_NAME)].state = "ok"
   /\ fs[DistManifest(PLUGIN_NAME)].state = "ok") =>
    PluginPins(fs[DistManifest(CONFIG_NAME)].json) =
      {fs[DistManifest(PLUGIN_NAME)].json.version}

\* Right after a script has written the config manifest, the manifest depends
\* on eslint-plugin-jshow at the version recorded in the rule manifest, and has
\* no entry for it when the rule manifest records none.
C22_PinnedWhenWritten ==
  (/\ ReleaseOn
   /\ proc.command \in {"upgrade-version", "npm-publish"}
   /\ proc.writes = <<PackageManifest("config")>>) =>
    PluginPins(fs[PackageManifest("config")].json) =
      {fs[PackageManifest("rule")].json.version} \ {U}

\* The value that follows the flag in the arguments, "" when none does.
ValueOf(args, flag) ==
  IF \E i \in 1..(Len(args) - 1) : args[i] = flag
  THEN args[(CHOOSE i \in 1..(Len(args) - 1) : args[i] = flag) + 1]
  ELSE ""

CannotRead(fn) == fs[fn].state # "ok"

\* The x.y.z of the new version is that of the old one with the next patch
\* number.
PatchIncremented(old, new) ==
  \E t \in Triples, tagOld, tagNew \in {"", PRERELEASE} :
    /\ old = FormatVersion(t) \o tagOld
    /\ new = FormatVersion([t EXCEPT ![3] = @ + 1]) \o tagNew

\* What C23 says of one run of upgrade-version.js on the disk as it is.
UpgradeAsStated(args) ==
  \E package \in {ValueOf(args, "-p")}, exited \in {upgradeVersion(args, fs)} :
    /\ (\/ package = ""
        \/ package \notin {"config", "rule"}
        \/ CannotRead(PackageManifest(package))
        \/ CannotRead(ROOT_MANIFEST)
        \/ fs[PackageManifest(package)].json.version = U) =>
         /\ exited.status # 0
         /\ exited.stderr # <<>>
         /\ exited.writes = <<>>
         /\ exited.fs = fs
    /\ exited.status # 0 => exited.writes = <<>> /\ exited.fs = fs
    /\ exited.status = 0 =>
         /\ exited.writes = <<PackageManifest(package)>>
         /\ \A fn \in DOMAIN fs \ {PackageManifest(package)} : exited.fs[fn] = fs[fn]
         /\ \E version \in {exited.fs[PackageManifest(package)].json.version} :
              IF ValueOf(args, "-v") # "" THEN version = ValueOf(args, "-v")
              ELSE PatchIncremented(fs[PackageManifest(package)].json.version, version)

\* C23: upgrade-version.js ends with a message on stderr and a non-zero status
\* and writes nothing when -p is missing or has no value, the selector is
\* neither config nor rule, the package or the root manifest cannot be read or
\* parsed, or the manifest has no version; it writes the manifest only when it
\* succeeds, once, with the -v value as the version when given and else the
\* current version with the patch number incremented by one.
C23_FailureSemantics == ReleaseOn => \A args \in UpgradeArgs : UpgradeAsStated(args)

\* The same for the manifests whose version is a plain x.y.z or absent.
C23_PlainVersions ==
  (ReleaseOn /\ \A folder \in Folders :
     \E version \in {FileAt(fs, PackageManifest(folder[1])).json.version} :
       version = U \/ \E t \in Triples : version = FormatVersion(t)) =>
    \A args \in UpgradeArgs : UpgradeAsStated(args)

\* What C27 says of one run of npm-publish.js on the disk as it is.
PublishAsStated(args, writeFailures) ==
  \E package \in {ValueOf(args, "-p")}, exited \in {npmPublish(args, fs)} :
    (\/ FileAt(fs, PackageManifest(package)).state # "ok"
     \/ CannotRead(ROOT_MANIFEST)
     \/ package = "config" /\ CannotRead(PackageManifest("rule"))
     \/ writeFailures /\ ~FileAt(fs, PackageManifest(package)).writable) =>
      exited.status # 0 /\ exited.stderr # <<>>

\* C27: npm-publish.js ends with a message on stderr and a non-zero status
\* whenever a manifest cannot be read or the selected package's manifest cannot
\* be written.
C27_ExitOnFailure == ReleaseOn => \A args \in PublishArgs : PublishAsStated(args, TRUE)

\* The same for the read failures alone.
C27_ExitOnReadFailure ==
  ReleaseOn => \A args \in PublishArgs : PublishAsStated(args, FALSE)

\* The declaration was reported variable by variable.
VarEachReported == VarLinted /\ reports # <<>> /\ reports[1].node # Place(visited)

\* The character indices that a removal covers.
Covered(fix) ==
  IF fix.has
  THEN FixRange(sourceCode, fix)[1]..(FixRange(sourceCode, fix)[2] - 1)
  ELSE {}

\* C24: when a declaration is reported variable by variable, no character
\* index is covered by the fixes of two of its reports, whatever ignoreFunction
\* is and whatever the shape of the declarators.
C24_DisjointFixes ==
  (VarEachReported /\ pc = "linted") =>
    \A i, j \in 1..Len(reports) :
      i < j => Covered(reports[i].fix) \cap Covered(reports[j].fix) = {}

\* The same for the declarations without an array pattern.
C24_DisjointWithoutArrayPattern ==
  (VarEachReported /\ \A i \in 1..Len(visited.variables) :
     visited.variables[i].parent.nodeType # "ArrayPattern") => C24_DisjointFixes

(***************************************************************************)
(* explicit-member-accessibility on tokens without the modifier keyword    *)
(***************************************************************************)

\* The lexeme of a modifier that the parser hands over as an Identifier token:
\* token.type is not Keyword, so the fixer's search passes over it.
IdentifierTyped(word) ==
  CASE word = "public" -> "public:Identifier"
    [] word = "protected" -> "protected:Identifier"
    [] word = "private" -> "private:Identifier"
    [] OTHER -> word

\* The file of a member as such a parser tokenizes it.
ForeignFile(m) ==
  [i \in 1..Len(MemberFile(m)) |-> IdentifierTyped(MemberFile(m)[i])]

AccModified == {m \in AccMethods : m.accessibility # U}

InitTok == InitAcc

\* The MethodDefinition listener on a method whose modifier is no Keyword token.
MethodDefinitionForeign ==
  /\ pc = "idle"
  /\ \E m \in AccModified :
       /\ sourceCode' = ForeignFile(m)
       /\ visited' = MemberNode(m)
       /\ reports' = checkMethodAccessibilityModifier(ForeignFile(m), MemberNode(m),
                                                      AccRealOption(options))
  /\ pc' = "linted"
  /\ UNCHANGED options
  /\ UNCHANGED <<gameVars, workflowVars, scriptVars>>

NextTok == MethodDefinitionForeign \/ EngineFix

SpecTok == InitTok /\ [][NextTok]_vars

\* The member was linted and none of its tokens is the keyword of its modifier.
ModifierHidden ==
  /\ pc # "idle"
  /\ visited.nodeType = "MethodDefinition"
  /\ visited.accessibility # U
  /\ FirstKeyword(ForeignFile(visited), getTokens(ForeignFile(visited), visited), 1,
                  visited.accessibility) = 0

\* C25: when the fixer in remove or replace mode finds no keyword token equal
\* to the modifier, the diagnostic carries no fix, and the source text is
\* unchanged after the engine's fix pass.
C25_NoFixWithoutKeyword ==
  ModifierHidden =>
    /\ \A i \in 1..Len(reports) :
         reports[i].messageId = "missingAccessibility" => ~reports[i].fix.has
    /\ pc = "fixed" => sourceCode = ForeignFile(visited)

\* What the fixer returns then: an edit at offset 0 of the file, the empty
\* removal in remove mode and the insertion of the new modifier in replace mode.
C25_EditAtOffsetZero ==
  ModifierHidden =>
    \A i \in 1..Len(reports) :
      (reports[i].messageId = "missingAccessibility" /\ reports[i].fix.has) =>
        /\ reports[i].fix.range = <<0, 0>>
        /\ reports[i].fix.text \in {<<>>, <<"public", " ">>}

\* A replace-mode fix was applied to a member without the keyword token.
C25_Inserted ==
  /\ ModifierHidden
  /\ pc = "fixed"
  /\ sourceCode = <<"public", " ">> \o ForeignFile(visited)

(***************************************************************************)
(* The reporting condition of sort-export                                  *)
(***************************************************************************)

\* The block of a run of the linted file holds for the candidate text that the
\* rule builds for it (the entries merged, sorted and joined by the line
\* break) and the original text of its span.
ExpCandidateIs(body, run, Holds(_, _, _)) ==
  \E option \in {ExpRealOption(options, sourceCode)} :
    \E entries \in {collectExportEntries(SubSeq(body, run[1], run[2]),
                                         IF run[1] = 1 THEN visited.range[1]
                                         ELSE body[run[1] - 1].range[2],
                                         sourceCode)} :
      \E mergedEntries \in {mergeEntries(entries, sourceCode, option)} :
        \E sortedEntries \in
             {Sort(mergedEntries,
                   [a \in 1..Len(mergedEntries) |-> [b \in 1..Len(mergedEntries) |->
                      compareExportEntries(mergedEntries[a], mergedEntries[b],
                                           option.order)]])} :
          Holds(buildExportOutput(sortedEntries, option.lineBreak),
                SubSeq(sourceCode, entries[1].start + 1, body[run[2]].range[2]),
                entries[1].start)

\* The reports on the block of a run.
ExpReportsOf(body, run) ==
  {r \in 1..Len(reports) : reports[r].node.range = body[run[1]].range}

ExpBlocks == {run \in ExpRuns(visited.body) : run[2] > run[1]}

\* C26: a block of sort-export is reported iff its merged-and-sorted candidate
\* text differs from the original text of its span; any difference, in order,
\* merging or the spacing between the statements, gives exactly one
\* exportsNotSorted diagnostic whose fix replaces the whole span by the
\* candidate, and textual equality gives none.
C26_TextComparison ==
  ExpLinted =>
    \A run \in ExpBlocks :
      LET AsStated(candidate, original, start) ==
            /\ Cardinality(ExpReportsOf(visited.body, run))
                 = IF candidate # original THEN 1 ELSE 0
            /\ \A r \in ExpReportsOf(visited.body, run) :
                 /\ reports[r].messageId = "exportsNotSorted"
                 /\ reports[r].fix.has =>
                      /\ reports[r].fix.range = <<start, visited.body[run[2]].range[2]>>
                      /\ reports[r].fix.text = candidate
      IN ExpCandidateIs(visited.body, run, AsStated)

\* One direction: a reported block has one report, its candidate differs from
\* the original text and the fix replaces the span by the candidate.
C26_ReportedOnlyIfDifferent ==
  ExpLinted =>
    \A run \in ExpBlocks :
      LET Sound(candidate, original, start) ==
            /\ Cardinality(ExpReportsOf(visited.body, run)) <= 1
            /\ \A r \in ExpReportsOf(visited.body, run) :
                 /\ candidate # original
                 /\ reports[r].messageId = "exportsNotSorted"
                 /\ reports[r].fix.has =>
                      /\ reports[r].fix.range = <<start, visited.body[run[2]].range[2]>>
                      /\ reports[r].fix.text = candidate
      IN ExpCandidateIs(visited.body, run, Sound)

\* A block that differs from its candidate and is not reported has neither a
\* merge nor a change of order: its statements stand in key order and no two
\* are mergeable.
C26_UnreportedDifference ==
  ExpLinted =>
    \A run \in ExpBlocks :
      LET Spacing(candidate, original, start) ==
            (candidate # original /\ ExpReportsOf(visited.body, run) = {}) =>
              /\ ExpInKeyOrder(visited.body, run[1], run[2])
              /\ ~ExpMergeable(visited.body, run[1], run[2])
      IN ExpCandidateIs(visited.body, run, Spacing)

(***************************************************************************)
(* sort-import on a program with a statement that is no import             *)
(***************************************************************************)

MaxFramed == 2

\* A call statement on a line of its own.
CallText == <<"k", "(", ")", ";">>

\* The file of the import statements with the call statement at place: before
\* the import of that index, after the last import (Len(statements) + 1), or
\* nowhere (0); and the nodes of its parse, in the order of the text.
FramedLayout(statements, gaps, place) ==
  LET count == Len(statements)
      placed == [k \in 1..count |->
                   IF k = place
                   THEN [statements[k] EXCEPT !.leading = CallText \o <<"\n">> \o @]
                   ELSE statements[k]]
      Framed(layout) ==
        LET start == IF place = 0 THEN 0
                     ELSE IF place = count + 1 THEN Len(layout.atoms) + 1
                     ELSE layout.body[place].range[1] - Len(placed[place].leading)
            call == [nodeType |-> "ExpressionStatement",
                     range |-> <<start, start + Len(CallText)>>]
        IN [atoms |-> IF place = count + 1 THEN layout.atoms \o <<"\n">> \o CallText
                      ELSE layout.atoms,
            body |-> IF place = 0 THEN layout.body
                     ELSE SubSeq(layout.body, 1, place - 1) \o <<call>>
                            \o SubSeq(layout.body, place, count)]
  IN CHOOSE framed \in
       {Framed(layout) :
          layout \in {SortLayout(placed, gaps, 1, [atoms |-> <<>>, body |-> <<>>])}} : TRUE

InitFrame == InitSort

\* 'Program:exit' of sort-import, on a file of up to MaxFramed import
\* statements and at most one call statement among them.
ProgramExitFramed ==
  /\ pc = "idle"
  /\ \E count \in 1..MaxFramed :
       \E statements \in [1..count -> SortImportsUnder(options)],
          gaps \in [1..(count - 1) -> {1, 2}], place \in 0..(count + 1) :
         \E layout \in {FramedLayout(statements, gaps, place)} :
           \E program \in {[nodeType |-> "Program", body |-> layout.body,
                            range |-> <<layout.body[1].range[1], Len(layout.atoms)>>]},
              realOption \in {SortRealOption(options, layout.atoms)} :
             /\ sourceCode' = layout.atoms
             /\ visited' = program
             /\ sortImportInProgram(program, layout.atoms, realOption, reports')
  /\ pc' = "linted"
  /\ UNCHANGED options
  /\ UNCHANGED <<gameVars, workflowVars, scriptVars>>

NextFrame == ProgramExitFramed \/ EngineFix

SpecFrame == InitFrame /\ [][NextFrame]_vars

\* The places of a text where the call statement stands.
CallsOf(text) ==
  {p \in 1..Len(text) : p + 3 <= Len(text) /\ SubSeq(text, p, p + 3) = CallText}

\* The call statement of the linted program stands between two imports.
CallBetweenImports ==
  \E i \in 2..(Len(visited.body) - 1) : visited.body[i].nodeType = "ExpressionStatement"

\* C28: the fix of sort-import changes import declarations and their comments
\* alone: every other statement of the program, also one between two import
\* declarations, is still in the text after the fix.
C28_Frame ==
  (SortLinted /\ reports # <<>> /\ reports[1].fix.has) =>
    Cardinality(CallsOf(SortAfter)) = Cardinality(CallsOf(sourceCode))

\* The same for the programs whose other statement stands before the first or
\* after the last import; there the text outside the fix's range is the text
\* outside the imports.
C28_FrameOutsideImports ==
  (SortLinted /\ reports # <<>> /\ reports[1].fix.has /\ ~CallBetweenImports) =>
    /\ Cardinality(CallsOf(SortAfter)) = Cardinality(CallsOf(sourceCode))
    /\ \A p \in CallsOf(sourceCode) :
         p > reports[1].fix.range[2] \/ p + 3 <= reports[1].fix.range[1]

\* A statement between two imports is within the range that the fix replaces,
\* and the replacement holds imports alone.
C28_DropsStatementBetween ==
  (SortLinted /\ reports # <<>> /\ reports[1].fix.has /\ CallBetweenImports) =>
    /\ CallsOf(SortAfter) = {}
    /\ \A p \in CallsOf(sourceCode) :
         reports[1].fix.range[1] < p /\ p + 3 <= reports[1].fix.range[2]

(***************************************************************************)
(* The bindings of merged imports                                          *)
(***************************************************************************)

\* The local names that an import statement binds by its default and named
\* specifiers.
SortDefaultLocals(st) == {st.default[i] : i \in 1..Len(st.default)}

SortNamedLocals(st) == {pair[2] : pair \in st.named}

\* The statements of the file that merge into one: the combinable imports of
\* a module, when there are two or more; Kept(before, from, merged) is asked of
\* each such set and the statement that they become.
SortMergesKeep(Kept(_, _, _)) ==
  LET before == SortStatements(sourceCode)
      after == SortStatements(SortAfter)
      Contributors(module) ==
        {i \in 1..Len(before) : before[i].module = module /\ SortCombinable(before[i])}
  IN \A module \in {before[i].module : i \in 1..Len(before)} :
       Cardinality(Contributors(module)) > 1 =>
         \E k \in 1..Len(after) :
           /\ after[k].module = module
           /\ SortCombinable(after[k])
           /\ Kept(before, Contributors(module), after[k])

\* C29: the local names bound by a merged import statement are those bound by
\* the imports merged into it, also when these have default specifiers of
\* different local names.
C29_MergePreservesBindings ==
  LET Bindings(before, from, merged) ==
        SortDefaultLocals(merged) \cup SortNamedLocals(merged)
          = UNION {SortDefaultLocals(before[i]) \cup SortNamedLocals(before[i]) : i \in from}
  IN SortSettled => SortMergesKeep(Bindings)

\* The named bindings are kept, and of the default bindings the first.
C29_NamedAndFirstDefault ==
  LET FirstDefault(before, from, merged) ==
        LET withDefault == {i \in from : before[i].default # <<>>}
        IN /\ SortNamedLocals(merged) = UNION {SortNamedLocals(before[i]) : i \in from}
           /\ merged.default =
                IF withDefault = {} THEN <<>>
                ELSE before[CHOOSE i \in withDefault : \A j \in withDefault : i <= j].default
  IN SortSettled => SortMergesKeep(FirstDefault)

(***************************************************************************)
(* The state of the example game                                           *)
(***************************************************************************)

\* The history of a game is a play from the empty board: the current move is
\* an index of the history, snapshot 0 is empty, and snapshot k is its
\* predecessor with one empty square marked, X for odd k and O for even k,
\* the predecessor having no winner.
GameWellFormed(game) ==
  /\ 0 <= game.currentMove
  /\ game.currentMove < Len(game.history)
  /\ game.history[1] = [cell \in 1..9 |-> ""]
  /\ \A k \in 1..(Len(game.history) - 1) :
       /\ \E cell \in 1..9 :
            /\ game.history[k][cell] = ""
            /\ game.history[k + 1] =
                 [game.history[k] EXCEPT ![cell] = IF k % 2 = 1 THEN "X" ELSE "O"]
       /\ ~GameWon(game.history[k])

\* C30: after any sequence of clicks on squares and selections of moves from
\* the initial state, the current move is an index of the history, snapshot 0
\* is the empty board, every later snapshot differs from its predecessor in
\* exactly one square, which was empty and holds X for an odd index and O for
\* an even one, and the predecessor has no winner.  Every state of the game
\* has this form, and so has the state after a further click where the games
\* of the model end.
C30_StateInvariant ==
  GameOn =>
    /\ GameWellFormed(Game)
    /\ currentMove = MaxMoves =>
         \A i \in Squares : GameWellFormed(clickSquare(Game, i))

\* A game won by its last move with its first snapshot after the start on
\* screen, where a move can be played.
C30_Witness ==
  /\ GameOn
  /\ Len(history) > 3
  /\ currentMove = 1
  /\ GameWon(history[Len(history)])
  /\ \E i \in Squares : clickSquare(Game, i) # Game

====
